---- MODULE Spec2Model ----
(***************************************************************************)
(* Echo.ai: the orchestration engine of src/echo-orchestrator.ts (three    *)
(* MCP providers behind one LangGraph ReAct agent) and the single-provider *)
(* client of src/echo-client.ts.                                           *)
(*                                                                         *)
(* The planner (the language model) and the providers are the environment: *)
(* their answers are drawn from small sets.  Texts are abstracted to the   *)
(* few values the code and the claims distinguish.                         *)
(***************************************************************************)
EXTENDS Integers, Sequences, FiniteSets, TLC

(***************************************************************************)
(* Bounds of the exploration.                                              *)
(***************************************************************************)
\* longest tool-call list of one planner response
MaxPlan == 2
\* tool calls the planner may propose in one run; afterwards it answers
MaxCalls == 2
\* user turns of one run
MaxTurns == 2
\* longest catalog a provider lists
MaxCatalog == 2
\* lines the chat loop reads in one run
MaxLines == 3
\* longest path argument of a filesystem tool call, in segments
MaxPath == 2

(***************************************************************************)
(* Program constants.                                                      *)
(***************************************************************************)
\* processQuery: recursionLimit passed to agent.invoke
RecursionLimit == 20

\* AggregatedTool.source: the three providers
Provider == {"filesystem", "gmail", "search"}

\* tool names a provider may list
ToolNames == {"read_file", "quality_check", "create_draft"}
\* tool names the planner may put into a tool call (it is untrusted)
PlannerNames == {"quality_check", "create_draft", "no_such_tool"}

\* getSystemPrompt, CRITICAL WORKFLOWS: 'quality_check' before creating,
\* "Only create draft if quality check passes"
ValidatingTools == {"quality_check"}
GatedTools == {"create_draft"}

\* what the planner hands to a tool: a JSON string of an object that fits
\* the tool's schema, or a string that is not JSON
Inputs == {"json", "text"}

\* conversation threads (thread_id of the checkpointer); the chat loop
\* generates one id when it starts and passes it with every query
ThreadIds == {"t1", "t2"}
ChatThread == "t1"

(***************************************************************************)
(* Sequences without repetition, of length at most n, over S.              *)
(***************************************************************************)
SeqsUpTo(S, n) == UNION {[1..k -> S] : k \in 0..n}

NoRepeat(s) == \A i, j \in 1..Len(s) : s[i] = s[j] => i = j

\* a listTools response: one provider never lists a name twice
Catalogs == {s \in SeqsUpTo(ToolNames, MaxCatalog) : NoRepeat(s)}

(***************************************************************************)
(* State.                                                                  *)
(***************************************************************************)
VARIABLES
  catalog,      \* provider -> the tool names its listTools returns
  tools,        \* this.tools: sequence of [name, source]
  isConnected,  \* this.isConnected
  agent,        \* this.agent is set
  pc,           \* "Idle", "agent" (planner call pending), "tools" (tool node);
                \* in startup and teardown: "start", "no_orchestrator",
                \* "connect_<provider>", "aggregate", "closing"; "exited"
                \* after process.exit
  thread,       \* thread id of the turn in progress
  history,      \* thread id -> messages kept by the MemorySaver
  step,         \* supersteps of the current agent.invoke
  plan,         \* tool calls of the planner response being executed
  status,       \* per tool call: "pending", "sent", "done"
  request,      \* per tool call: the callTool request sent for it
  reply,        \* per tool call: what client.callTool produced
  result,       \* per tool call: the string the tool function returned
  callCount,    \* provider -> callTool requests issued on its connection
  sentLog,      \* set of [provider, name] requests ever issued
  turns,        \* user turns started
  callsLeft,    \* tool calls the planner may still propose
  apiKey,       \* OPENAI_API_KEY is set in the environment
  proc,         \* provider -> the process spawned for it: "none", "running",
                \* "killed"
  conn,         \* provider -> the connection of its client: "none", "open",
                \* "closed", "close_failed" (close was called and rejected)
  outcome,      \* what the last processQuery printed: "answer", "error" (a
                \* caught error), "recursion_limit" (the caught error is the
                \* agent's recursion-limit error), "not_ready", "none"
  line,         \* the chat loop's rl.question: [n: lines read so far, text:
                \* the last line]
  main,         \* where main() is: "startup", "chat" (startChatLoop),
                \* "finally", "returned"; "api" when the object is driven
                \* through its methods
  sig,          \* the signal handler: "none", "closing" (it awaits the
                \* close inside disconnect), "done"
  fsOps,        \* the operations the provider servers performed for the
                \* requests: set of [call, op, path]
  rootPath      \* state.rootPath of the filesystem server: "null" or "root"

\* the process around the object: the environment variable, the line read,
\* main and the signal handler
envVars == <<apiKey, fsOps, rootPath>>

mainVars == <<envVars, line, main, sig>>

\* the process, the provider processes and the connections
lifeVars == <<mainVars, proc, conn>>

\* everything but pc, outcome and the lifecycle variables
turnVars == <<catalog, tools, isConnected, agent, thread, history, step, plan,
              status, request, reply, result, callCount, sentLog, turns,
              callsLeft>>

vars == <<catalog, tools, isConnected, agent, pc, thread, history, step,
          plan, status, request, reply, result, callCount, sentLog, turns,
          callsLeft, outcome, apiKey, proc, conn, line, main, sig, fsOps,
          rootPath>>


(***************************************************************************)
(* Messages of a thread.  One shape for all roles: role, tool name, text,  *)
(* tool calls (assistant messages) and tool_call_id (tool messages).       *)
(***************************************************************************)
HumanMessage == [role |-> "human", name |-> "", text |-> "query",
                 calls |-> <<>>, id |-> 0]

AIMessage(text, calls) == [role |-> "ai", name |-> "", text |-> text,
                           calls |-> calls, id |-> 0]

ToolMessage(name, text, id) == [role |-> "tool", name |-> name, text |-> text,
                                calls |-> <<>>, id |-> id]

\* the tool calls of an assistant message, by tool name
CallNames(p) == [i \in 1..Len(p) |-> p[i].name]

\* a tool call of a planner response
Invocations == [name : PlannerNames, input : Inputs]

\* the tool-call lists the planner can return
Plans == {p \in SeqsUpTo(Invocations, MaxPlan) : Len(p) > 0}

(***************************************************************************)
(* Orchestrator: aggregation of the catalogs.                              *)
(***************************************************************************)
\* tools.map(tool => ({...tool, source}))
TagTools(names, src) ==
  [i \in 1..Len(names) |-> [name |-> names[i], source |-> src]]

\* a slip in the tagging: the Gmail tools carry the filesystem tag
aggregateToolsMistagged(cat) ==
  TagTools(cat["filesystem"], "filesystem")
    \o TagTools(cat["gmail"], "filesystem")
    \o TagTools(cat["search"], "search")

\* this.tools = [...fsTools, ...gmailTools, ...searchTools]
aggregateTools(cat) ==
  TagTools(cat["filesystem"], "filesystem")
    \o TagTools(cat["gmail"], "gmail")
    \o TagTools(cat["search"], "search")

(***************************************************************************)
(* Orchestrator: the DynamicTool function of initializeAgent.              *)
(***************************************************************************)
\* a string input is parsed as JSON; when that throws, args = {query: input}
parseInput(input) == IF input = "json" THEN "object" ELSE "query_object"

\* a slip in the switch: the search case falls into the Gmail client
clientOfFallthrough(source) ==
  CASE source = "filesystem" -> "filesystem"
    [] source = "gmail" -> "gmail"
    [] source = "search" -> "gmail"

\* switch (toolDef.source): the client a tool definition is routed to
clientOf(source) ==
  CASE source = "filesystem" -> "filesystem"
    [] source = "gmail" -> "gmail"
    [] source = "search" -> "search"

\* what a provider can do with a callTool request: answer with a content text
\* (a result, or an error text flagged isError), or fail the request
\* (transport error, timeout)
Replies(name) ==
  (IF name \in ValidatingTools
     THEN {[kind |-> "result", text |-> "OK", isError |-> FALSE],
           [kind |-> "result", text |-> "REJECTED", isError |-> FALSE]}
     ELSE {[kind |-> "result", text |-> "done", isError |-> FALSE]})
  \cup {[kind |-> "result", text |-> "Error", isError |-> TRUE],
        [kind |-> "throw", text |-> "", isError |-> FALSE]}

\* no request sent
NoRequest == [provider |-> "", name |-> "", args |-> ""]

\* no reply yet
NoReply == [kind |-> "none", text |-> "", isError |-> FALSE]

\* (result.content)?.[0]?.text || JSON.stringify(result)
extractResultText(r) == IF r.text # "" THEN r.text ELSE "json"

\* the tool function without its catch: a failed call is treated like a reply
toolReturnUncaught(r) == extractResultText(r)

\* the try/catch around client.callTool: the string the tool function returns
toolReturn(r) ==
  IF r.kind = "throw" THEN "Error executing tool"
  ELSE extractResultText(r)

\* the tool node looks a call up by name among the agent's tools (first match);
\* 0 when no tool has that name
findTool(name) ==
  IF \E i \in 1..Len(tools) : tools[i].name = name
    THEN CHOOSE i \in 1..Len(tools) :
           /\ tools[i].name = name
           /\ \A j \in 1..(i - 1) : tools[j].name # name
    ELSE 0

(***************************************************************************)
(* Initial state: nothing connected, no conversation.                      *)
(***************************************************************************)
\* the catalogs of a session: the providers as the README describes them,
\* and the Gmail provider as src/gmail-server.ts lists it (no quality_check)
SessionCatalogs ==
  {[filesystem |-> <<"read_file">>, gmail |-> g, search |-> <<>>] :
     g \in {<<"quality_check", "create_draft">>, <<"create_draft">>}}

\* no line read yet
NoLine == [n |-> 0, text |-> "none"]

InitState(threads, turnsDone, calls) ==
  /\ tools = <<>>
  /\ isConnected = FALSE
  /\ agent = FALSE
  /\ pc = "Idle"
  /\ thread = ChatThread
  /\ history = [t \in threads |-> <<>>]
  /\ step = 0
  /\ plan = <<>>
  /\ status = <<>>
  /\ request = <<>>
  /\ reply = <<>>
  /\ result = <<>>
  /\ callCount = [p \in Provider |-> 0]
  /\ sentLog = {}
  /\ turns = turnsDone
  /\ callsLeft = calls
  /\ outcome = "none"
  /\ apiKey = TRUE
  /\ proc = [p \in Provider |-> "none"]
  /\ conn = [p \in Provider |-> "none"]
  /\ line = NoLine
  /\ main = "api"
  /\ sig = "none"
  /\ fsOps = {}

\* the state after construction; the filesystem server is not started
InitOrchestrator(threads, turnsDone, calls) ==
  /\ InitState(threads, turnsDone, calls)
  /\ rootPath = "null"

Init ==
  /\ catalog \in SessionCatalogs
  /\ InitOrchestrator({ChatThread}, 0, MaxCalls)

(***************************************************************************)
(* connect: the three services are connected, the catalogs aggregated and  *)
(* the agent initialised.                                                  *)
(***************************************************************************)
Connect ==
  /\ ~isConnected
  /\ ~agent
  /\ pc = "Idle"
  /\ proc' = [p \in Provider |-> "running"]
  /\ conn' = [p \in Provider |-> "open"]
  /\ tools' = aggregateTools(catalog)
  /\ agent' = TRUE
  /\ isConnected' = TRUE
  /\ UNCHANGED <<mainVars, catalog, pc, thread, history, step, plan, status, request,
                 reply, result, callCount, sentLog, turns, callsLeft, outcome>>

\* disconnect: closes the clients, kills the processes, isConnected = false
Disconnect ==
  /\ pc = "Idle"
  /\ isConnected
  /\ conn' = [p \in Provider |-> IF conn[p] = "none" THEN "none" ELSE "closed"]
  /\ proc' = [p \in Provider |-> IF proc[p] = "none" THEN "none" ELSE "killed"]
  /\ isConnected' = FALSE
  /\ UNCHANGED <<mainVars, catalog, tools, agent, pc, thread, history, step, plan,
                 status, request, reply, result, callCount, sentLog, turns,
                 callsLeft, outcome>>

(***************************************************************************)
(* processQuery and the ReAct loop of the agent.                           *)
(***************************************************************************)
\* the turn ends: processQuery returns
EndTurn(what) ==
  /\ pc' = "Idle"
  /\ plan' = <<>>
  /\ status' = <<>>
  /\ request' = <<>>
  /\ reply' = <<>>
  /\ result' = <<>>
  /\ outcome' = what

\* processQuery that does not pass the thread id on: every invoke runs on a
\* thread of its own, without the earlier messages
ProcessQueryNewThread(t) ==
  /\ pc = "Idle"
  /\ turns < MaxTurns
  /\ t \in DOMAIN history
  /\ IF ~isConnected \/ ~agent
       THEN /\ outcome' = "not_ready"
            /\ UNCHANGED <<pc, thread, history, step, turns>>
       ELSE /\ thread' = t
            /\ history' = [history EXCEPT ![t] = <<HumanMessage>>]
            /\ step' = 0
            /\ pc' = "agent"
            /\ turns' = turns + 1
            /\ outcome' = "none"
  /\ UNCHANGED <<lifeVars, catalog, tools, isConnected, agent, plan, status, request,
                 reply, result, callCount, sentLog, callsLeft>>

\* processQuery on one conversation state for all thread ids
ProcessQueryGlobalState(t) ==
  /\ pc = "Idle"
  /\ turns < MaxTurns
  /\ t \in DOMAIN history
  /\ IF ~isConnected \/ ~agent
       THEN /\ outcome' = "not_ready"
            /\ UNCHANGED <<pc, thread, history, step, turns>>
       ELSE /\ thread' = t
            /\ history' = [history EXCEPT ![ChatThread] = Append(@, HumanMessage)]
            /\ step' = 0
            /\ pc' = "agent"
            /\ turns' = turns + 1
            /\ outcome' = "none"
  /\ UNCHANGED <<lifeVars, catalog, tools, isConnected, agent, plan, status, request,
                 reply, result, callCount, sentLog, callsLeft>>

\* processQuery up to the first planner call, on a thread of the session
Query(t) ==
  /\ IF ~isConnected \/ ~agent
       THEN /\ outcome' = "not_ready"
            /\ UNCHANGED <<pc, thread, history, step, turns>>
       ELSE /\ thread' = t
            /\ history' = [history EXCEPT ![t] = Append(@, HumanMessage)]
            /\ step' = 0
            /\ pc' = "agent"
            /\ turns' = turns + 1
            /\ outcome' = "none"
  /\ UNCHANGED <<catalog, tools, isConnected, agent, plan, status, request,
                 reply, result, callCount, sentLog, callsLeft>>

\* a processQuery without the not-ready guard
ProcessQueryUnguarded(t) ==
  /\ pc = "Idle"
  /\ turns < MaxTurns
  /\ t \in DOMAIN history
  /\ thread' = t
  /\ history' = [history EXCEPT ![t] = Append(@, HumanMessage)]
  /\ step' = 0
  /\ pc' = "agent"
  /\ turns' = turns + 1
  /\ outcome' = "none"
  /\ UNCHANGED <<catalog, tools, isConnected, agent, plan, status, request,
                 reply, result, callCount, sentLog, callsLeft, lifeVars>>

\* processQuery called with a query and the thread id t
ProcessQuery(t) ==
  /\ pc = "Idle"
  /\ turns < MaxTurns
  /\ t \in DOMAIN history
  /\ Query(t)
  /\ UNCHANGED lifeVars

\* the planner answers without tool calls: the answer is printed
AgentFinal ==
  /\ pc = "agent"
  /\ history' = [history EXCEPT ![thread] = Append(@, AIMessage("answer", <<>>))]
  /\ step' = step + 1
  /\ EndTurn("answer")
  /\ UNCHANGED <<lifeVars, catalog, tools, isConnected, agent, thread, callCount,
                 sentLog, turns, callsLeft>>

\* the planner answers with tool calls: the tool node runs next, unless the
\* recursion limit is reached
AgentProposes(p) ==
  /\ pc = "agent"
  /\ Len(p) <= callsLeft
  /\ callsLeft' = callsLeft - Len(p)
  /\ history' = [history EXCEPT ![thread] = Append(@, AIMessage("", CallNames(p)))]
  /\ step' = step + 1
  /\ IF step + 1 >= RecursionLimit
       THEN EndTurn("recursion_limit")
       ELSE /\ pc' = "tools"
            /\ plan' = p
            /\ status' = [i \in 1..Len(p) |-> "pending"]
            /\ request' = [i \in 1..Len(p) |-> NoRequest]
            /\ reply' = [i \in 1..Len(p) |-> NoReply]
            /\ result' = [i \in 1..Len(p) |-> ""]
            /\ UNCHANGED outcome
  /\ UNCHANGED <<lifeVars, catalog, tools, isConnected, agent, thread, callCount,
                 sentLog, turns>>

\* processQuery without its catch: the error leaves processQuery and the
\* chat loop with it
AgentFailsUncaught ==
  /\ pc = "agent"
  /\ pc' = "crashed"
  /\ UNCHANGED <<lifeVars, catalog, tools, isConnected, agent, thread, history, step,
                 plan, status, request, reply, result, callCount, sentLog,
                 turns, callsLeft, outcome>>

\* a catch that also drops the conversation of the thread
AgentFailsForgets ==
  /\ pc = "agent"
  /\ EndTurn("error")
  /\ history' = [history EXCEPT ![thread] = <<>>]
  /\ UNCHANGED <<lifeVars, catalog, tools, isConnected, agent, thread, step,
                 callCount, sentLog, turns, callsLeft>>

\* the planner call throws: caught by processQuery
AgentFails ==
  /\ pc = "agent"
  /\ EndTurn("error")
  /\ UNCHANGED <<lifeVars, catalog, tools, isConnected, agent, thread, history, step,
                 callCount, sentLog, turns, callsLeft>>

\* the tool node starts the i-th tool call: an unknown name is answered by the
\* node itself, a known one runs the tool function up to client.callTool
StartCall(i) ==
  /\ pc = "tools"
  /\ i \in 1..Len(plan)
  /\ status[i] = "pending"
  /\ \A j \in 1..(i - 1) : status[j] # "pending"
  /\ LET k == findTool(plan[i].name) IN
       IF k = 0
         THEN /\ status' = [status EXCEPT ![i] = "done"]
              /\ result' = [result EXCEPT ![i] = "Error: tool not found"]
              /\ UNCHANGED <<request, reply, callCount, sentLog>>
         ELSE LET c == clientOf(tools[k].source) IN
              /\ status' = [status EXCEPT ![i] = "sent"]
              /\ request' = [request EXCEPT ![i] =
                   [provider |-> c, name |-> tools[k].name,
                    args |-> parseInput(plan[i].input)]]
              /\ callCount' = [callCount EXCEPT ![c] = @ + 1]
              /\ sentLog' = sentLog \cup
                   {[provider |-> c, name |-> tools[k].name]}
              /\ UNCHANGED <<reply, result>>
  /\ UNCHANGED <<lifeVars, catalog, tools, isConnected, agent, pc, thread, history, step,
                 plan, turns, callsLeft, outcome>>

\* the provider's reply to the i-th call arrives (or the call fails)
Reply(i, r) ==
  /\ pc = "tools"
  /\ i \in 1..Len(plan)
  /\ status[i] = "sent"
  /\ r \in Replies(plan[i].name)
  /\ status' = [status EXCEPT ![i] = "done"]
  /\ reply' = [reply EXCEPT ![i] = r]
  /\ result' = [result EXCEPT ![i] = toolReturn(r)]
  /\ UNCHANGED <<lifeVars, catalog, tools, isConnected, agent, pc, thread, history, step,
                 plan, request, callCount, sentLog, turns, callsLeft,
                 outcome>>

\* a slip in the step limit: one more step is allowed before the error
ToolsDoneOneStepMore ==
  /\ pc = "tools"
  /\ \A i \in 1..Len(plan) : status[i] = "done"
  /\ history' = [history EXCEPT ![thread] =
       @ \o [i \in 1..Len(plan) |-> ToolMessage(plan[i].name, result[i], i)]]
  /\ step' = step + 1
  /\ IF step + 1 > RecursionLimit
       THEN EndTurn("recursion_limit")
       ELSE /\ pc' = "agent"
            /\ plan' = <<>>
            /\ status' = <<>>
            /\ request' = <<>>
            /\ reply' = <<>>
            /\ result' = <<>>
            /\ UNCHANGED outcome
  /\ UNCHANGED <<lifeVars, catalog, tools, isConnected, agent, thread, callCount,
                 sentLog, turns, callsLeft>>

\* all tool calls of the response have returned: their tool messages are
\* appended in the order of the calls and the planner is called again, unless
\* the recursion limit is reached
ToolsDone ==
  /\ pc = "tools"
  /\ \A i \in 1..Len(plan) : status[i] = "done"
  /\ history' = [history EXCEPT ![thread] =
       @ \o [i \in 1..Len(plan) |-> ToolMessage(plan[i].name, result[i], i)]]
  /\ step' = step + 1
  /\ IF step + 1 >= RecursionLimit
       THEN EndTurn("recursion_limit")
       ELSE /\ pc' = "agent"
            /\ plan' = <<>>
            /\ status' = <<>>
            /\ request' = <<>>
            /\ reply' = <<>>
            /\ result' = <<>>
            /\ UNCHANGED outcome
  /\ UNCHANGED <<lifeVars, catalog, tools, isConnected, agent, thread, callCount,
                 sentLog, turns, callsLeft>>

Next ==
  \/ Connect
  \/ Disconnect
  \/ \E t \in ThreadIds : ProcessQuery(t)
  \/ AgentFinal
  \/ \E p \in Plans : AgentProposes(p)
  \/ AgentFails
  \/ \E i \in 1..MaxPlan : StartCall(i)
  \/ \E i \in 1..MaxPlan : \E r \in Replies("quality_check") \cup Replies("create_draft") : Reply(i, r)
  \/ ToolsDone

Spec == Init /\ [][Next]_vars

TypeOK ==
  /\ isConnected \in BOOLEAN
  /\ pc \in {"Idle", "agent", "tools", "start", "no_orchestrator",
            "connect_filesystem", "connect_gmail", "connect_search",
            "aggregate", "closing", "exited", "initialized", "serving"}
  /\ rootPath \in {"null", "root"}
  /\ main \in {"api", "startup", "chat", "finally", "returned"}
  /\ sig \in {"none", "closing", "done"}
  /\ line.n \in 0..MaxLines
  /\ step \in 0..RecursionLimit
  /\ Len(status) = Len(plan)
  /\ Len(request) = Len(plan)
  /\ Len(reply) = Len(plan)
  /\ Len(result) = Len(plan)


(***************************************************************************)
(* The single-provider client of src/echo-client.ts (FilesystemMCPClient). *)
(* It uses the same state: tools, isConnected, the messages of one query   *)
(* (kept as one thread of history), the tool calls of the planner          *)
(* response and the requests sent on the one connection ("filesystem").    *)
(***************************************************************************)
\* what the user types: the special commands and any other line
Queries == {"ls", "help", "text"}

\* what the provider can do with a request of the client: a content text, a
\* result without content, or a failed request (an unknown tool is an error
\* of the request)
ClientReplies(name) ==
  IF name \in {catalog["filesystem"][i] : i \in 1..Len(catalog["filesystem"])}
    THEN {[kind |-> "result", text |-> "done", isError |-> FALSE],
          [kind |-> "result", text |-> "", isError |-> FALSE],
          [kind |-> "throw", text |-> "", isError |-> FALSE]}
    ELSE {[kind |-> "throw", text |-> "", isError |-> FALSE]}

\* type guard: the result has a first content part with a text
isValidToolResult(r) == r.kind = "result" /\ r.text # ""

\* the content of the tool message pushed for a call
clientToolText(r) ==
  IF r.kind = "throw" THEN "Tool execution failed"
  ELSE IF isValidToolResult(r) THEN r.text
  ELSE "Unexpected tool result format"

InitClient ==
  /\ catalog \in {[filesystem |-> c, gmail |-> <<>>, search |-> <<>>] :
                    c \in Catalogs}
  /\ InitOrchestrator({ChatThread}, 0, MaxCalls)

\* connect: the tools of the one provider are listed
ClientConnect ==
  /\ ~isConnected
  /\ tools = <<>>
  /\ pc = "Idle"
  /\ conn' = [conn EXCEPT !["filesystem"] = "open"]
  /\ tools' = TagTools(catalog["filesystem"], "filesystem")
  /\ isConnected' = TRUE
  /\ UNCHANGED <<mainVars, proc, catalog, agent, pc, thread, history, step, plan, status,
                 request, reply, result, callCount, sentLog, turns, callsLeft,
                 outcome>>

\* disconnect
ClientDisconnect ==
  /\ pc = "Idle"
  /\ isConnected
  /\ conn' = [conn EXCEPT !["filesystem"] = "closed"]
  /\ isConnected' = FALSE
  /\ UNCHANGED <<mainVars, proc, catalog, tools, agent, pc, thread, history, step, plan,
                 status, request, reply, result, callCount, sentLog, turns,
                 callsLeft, outcome>>

\* processQuery up to the first planner call: a fresh messages array
ClientQuery(q) ==
  /\ IF ~isConnected
       THEN /\ outcome' = "not_ready"
            /\ UNCHANGED <<pc, thread, history, step, turns>>
       ELSE IF q \in {"ls", "help"}
         THEN /\ outcome' = q
              /\ turns' = turns + 1
              /\ UNCHANGED <<pc, thread, history, step>>
         ELSE /\ thread' = ChatThread
              /\ history' = [history EXCEPT ![ChatThread] = <<HumanMessage>>]
              /\ step' = 0
              /\ pc' = "agent"
              /\ turns' = turns + 1
              /\ outcome' = "none"
  /\ UNCHANGED <<catalog, tools, isConnected, agent, plan, status, request,
                 reply, result, callCount, sentLog, callsLeft>>

\* processQuery called with the query q
ClientProcessQuery(q) ==
  /\ pc = "Idle"
  /\ turns < MaxTurns
  /\ ClientQuery(q)
  /\ UNCHANGED lifeVars

\* the first planner response has no tool calls: its content is printed
ClientPlannerAnswers ==
  /\ pc = "agent"
  /\ step' = step + 1
  /\ EndTurn("answer")
  /\ UNCHANGED <<lifeVars, catalog, tools, isConnected, agent, thread, history,
                 callCount, sentLog, turns, callsLeft>>

\* the first planner response has tool calls: it is pushed and the loop starts
ClientPlannerProposes(p) ==
  /\ pc = "agent"
  /\ Len(p) <= callsLeft
  /\ callsLeft' = callsLeft - Len(p)
  /\ history' = [history EXCEPT ![thread] = Append(@, AIMessage("", CallNames(p)))]
  /\ step' = step + 1
  /\ pc' = "tools"
  /\ plan' = p
  /\ status' = [i \in 1..Len(p) |-> "pending"]
  /\ request' = [i \in 1..Len(p) |-> NoRequest]
  /\ reply' = [i \in 1..Len(p) |-> NoReply]
  /\ result' = [i \in 1..Len(p) |-> ""]
  /\ UNCHANGED <<lifeVars, catalog, tools, isConnected, agent, thread, callCount,
                 sentLog, turns, outcome>>

\* the first planner call throws: caught by the outer catch
ClientPlannerFails ==
  /\ pc = "agent"
  /\ EndTurn("error")
  /\ UNCHANGED <<lifeVars, catalog, tools, isConnected, agent, thread, history, step,
                 callCount, sentLog, turns, callsLeft>>

\* one iteration of the loop up to client.callTool: JSON.parse of the
\* arguments is outside the inner try, so when it throws the outer catch ends
\* the query; otherwise the request is sent under the planner's tool name
ClientStartCall(i) ==
  /\ pc = "tools"
  /\ i \in 1..Len(plan)
  /\ status[i] = "pending"
  /\ \A j \in 1..(i - 1) : status[j] = "done"
  /\ IF plan[i].input = "text"
       THEN /\ EndTurn("error")
            /\ UNCHANGED <<callCount, sentLog>>
       ELSE /\ status' = [status EXCEPT ![i] = "sent"]
            /\ request' = [request EXCEPT ![i] =
                 [provider |-> "filesystem", name |-> plan[i].name,
                  args |-> "object"]]
            /\ callCount' = [callCount EXCEPT !["filesystem"] = @ + 1]
            /\ sentLog' = sentLog \cup
                 {[provider |-> "filesystem", name |-> plan[i].name]}
            /\ UNCHANGED <<pc, plan, reply, result, outcome>>
  /\ UNCHANGED <<lifeVars, catalog, tools, isConnected, agent, thread, history, step,
                 turns, callsLeft>>

\* the rest of the iteration: the result, or the caught error, is pushed as
\* the tool message of the call
ClientReply(i, r) ==
  /\ pc = "tools"
  /\ i \in 1..Len(plan)
  /\ status[i] = "sent"
  /\ r \in ClientReplies(plan[i].name)
  /\ status' = [status EXCEPT ![i] = "done"]
  /\ reply' = [reply EXCEPT ![i] = r]
  /\ result' = [result EXCEPT ![i] = clientToolText(r)]
  /\ history' = [history EXCEPT ![thread] =
       Append(@, ToolMessage(plan[i].name, clientToolText(r), i))]
  /\ UNCHANGED <<lifeVars, catalog, tools, isConnected, agent, pc, thread, step, plan,
                 request, callCount, sentLog, turns, callsLeft, outcome>>

\* a client that hands the second planner response back to the tool-call
\* handling of the first
ClientFinalReplans ==
  /\ pc = "tools"
  /\ \A i \in 1..Len(plan) : status[i] = "done"
  /\ step' = step + 1
  /\ pc' = "agent"
  /\ UNCHANGED <<lifeVars, catalog, tools, isConnected, agent, thread, history,
                 callCount, sentLog, turns, callsLeft, plan, status, request,
                 reply, result, outcome>>

\* after the loop: the second planner call, made without tools; its content
\* is printed
ClientFinalAnswer ==
  /\ pc = "tools"
  /\ \A i \in 1..Len(plan) : status[i] = "done"
  /\ step' = step + 1
  /\ EndTurn("answer")
  /\ UNCHANGED <<lifeVars, catalog, tools, isConnected, agent, thread, history,
                 callCount, sentLog, turns, callsLeft>>

\* the second planner call throws: caught by the outer catch
ClientFinalFails ==
  /\ pc = "tools"
  /\ \A i \in 1..Len(plan) : status[i] = "done"
  /\ EndTurn("error")
  /\ UNCHANGED <<lifeVars, catalog, tools, isConnected, agent, thread, history, step,
                 callCount, sentLog, turns, callsLeft>>

NextClient ==
  \/ ClientConnect
  \/ ClientDisconnect
  \/ \E q \in Queries : ClientProcessQuery(q)
  \/ ClientPlannerAnswers
  \/ \E p \in Plans : ClientPlannerProposes(p)
  \/ ClientPlannerFails
  \/ \E i \in 1..MaxPlan : ClientStartCall(i)
  \/ \E i \in 1..MaxPlan : \E r \in ClientReplies("read_file") : ClientReply(i, r)
  \/ ClientFinalAnswer
  \/ ClientFinalFails

SpecClient == InitClient /\ [][NextClient]_vars

(***************************************************************************)
(* The client as a process: main connects, runs the chat loop on the lines *)
(* of stdin and disconnects in its finally block; the handlers of SIGINT   *)
(* and SIGTERM disconnect and exit.                                        *)
(***************************************************************************)
\* lines the user may type
Lines == {"quit", " QUIT ", "exit", "", "  ", "help", "text"}

\* query.trim().toLowerCase(), on the lines above
normalize(l) ==
  CASE l = " QUIT " -> "quit"
    [] l = "  " -> ""
    [] OTHER -> l

\* the query processQuery sees: a special command or any other text
commandOf(l) == IF normalize(l) \in {"ls", "help"} THEN normalize(l) ELSE "text"

InitClientSession ==
  /\ catalog = [filesystem |-> <<"read_file">>, gmail |-> <<>>, search |-> <<>>]
  /\ pc = "start"
  /\ main = "startup"
  /\ line = NoLine
  /\ sig = "none"
  /\ fsOps = {}
  /\ rootPath = "null"
  /\ apiKey = TRUE
  /\ tools = <<>>
  /\ isConnected = FALSE
  /\ agent = FALSE
  /\ thread = ChatThread
  /\ history = [t \in {ChatThread} |-> <<>>]
  /\ step = 0
  /\ plan = <<>>
  /\ status = <<>>
  /\ request = <<>>
  /\ reply = <<>>
  /\ result = <<>>
  /\ callCount = [p \in Provider |-> 0]
  /\ sentLog = {}
  /\ turns = 0
  /\ callsLeft = 1
  /\ outcome = "none"
  /\ proc = [p \in Provider |-> "none"]
  /\ conn = [p \in Provider |-> "none"]

\* connect up to await client.connect(transport)
ClientConnectStart ==
  /\ main = "startup"
  /\ pc = "start"
  /\ pc' = "connect_filesystem"
  /\ UNCHANGED <<turnVars, lifeVars, outcome>>

\* client.connect resolves: the transport has started the server and the
\* connection is open; listTools and listResources are awaited
ClientConnected ==
  /\ pc = "connect_filesystem"
  /\ conn' = [conn EXCEPT !["filesystem"] = "open"]
  /\ pc' = "aggregate"
  /\ UNCHANGED <<turnVars, mainVars, proc, outcome>>

\* the tools are listed: isConnected = true, connect returns and main enters
\* startChatLoop
ClientListed ==
  /\ pc = "aggregate"
  /\ tools' = TagTools(catalog["filesystem"], "filesystem")
  /\ isConnected' = TRUE
  /\ pc' = "Idle"
  /\ main' = "chat"
  /\ UNCHANGED <<catalog, agent, thread, history, step, plan, status, request,
                 reply, result, callCount, sentLog, turns, callsLeft, outcome,
                 envVars, line, sig, proc, conn>>

\* an await of connect rejects: connect rethrows and main's catch calls
\* process.exit(1)
ClientConnectFails ==
  /\ pc \in {"connect_filesystem", "aggregate"}
  /\ outcome' = "fatal"
  /\ pc' = "exited"
  /\ UNCHANGED <<turnVars, lifeVars>>

\* one pass of the while loop of startChatLoop, from the line rl.question
\* returns to the next await
ClientChatLine(l) ==
  /\ main = "chat"
  /\ pc = "Idle"
  /\ line.n < MaxLines
  /\ turns < MaxTurns
  /\ line' = [n |-> line.n + 1, text |-> l]
  /\ IF normalize(l) = "quit"
       THEN /\ main' = "finally"
            /\ UNCHANGED <<turnVars, pc, outcome>>
       ELSE IF normalize(l) = ""
         THEN UNCHANGED <<turnVars, pc, outcome, main>>
         ELSE ClientQuery(commandOf(l)) /\ UNCHANGED main
  /\ UNCHANGED <<envVars, sig, proc, conn>>

\* main's finally: await client.disconnect()
ClientMainFinally == main = "finally" /\ ClientDisconnect

\* disconnect has run and main returns
ClientMainReturns ==
  /\ main = "finally"
  /\ pc = "Idle"
  /\ ~isConnected
  /\ main' = "returned"
  /\ UNCHANGED <<turnVars, pc, outcome, envVars, line, sig, proc, conn>>

\* SIGINT or SIGTERM: the handler calls disconnect, which closes the
\* connection only when isConnected, and then process.exit(0)
ClientSignal ==
  /\ sig = "none"
  /\ main # "returned"
  /\ pc # "exited"
  /\ IF isConnected
       THEN /\ \E c \in {"closed", "close_failed"} :
                 conn' = [conn EXCEPT !["filesystem"] = c]
            /\ sig' = "closing"
            /\ UNCHANGED <<isConnected, pc>>
       ELSE /\ isConnected' = FALSE
            /\ sig' = "done"
            /\ pc' = "exited"
            /\ UNCHANGED conn
  /\ UNCHANGED <<catalog, tools, agent, thread, history, step, plan,
                 status, request, reply, result, callCount, sentLog, turns,
                 callsLeft, outcome, envVars, line, main, proc>>

\* the close awaited by the handler has settled: isConnected = false and
\* process.exit(0)
ClientSignalExit ==
  /\ sig = "closing"
  /\ pc # "exited"
  /\ isConnected' = FALSE
  /\ sig' = "done"
  /\ pc' = "exited"
  /\ UNCHANGED <<catalog, tools, agent, thread, history, step, plan,
                 status, request, reply, result, callCount, sentLog, turns,
                 callsLeft, outcome, envVars, line, main, proc, conn>>

NextClientSession ==
  \/ ClientConnectStart
  \/ ClientConnected
  \/ ClientListed
  \/ ClientConnectFails
  \/ \E l \in Lines : ClientChatLine(l)
  \/ ClientPlannerAnswers
  \/ \E p \in Plans : ClientPlannerProposes(p)
  \/ ClientPlannerFails
  \/ \E i \in 1..MaxPlan : ClientStartCall(i)
  \/ \E i \in 1..MaxPlan : \E r \in ClientReplies("read_file") : ClientReply(i, r)
  \/ ClientFinalAnswer
  \/ ClientFinalFails
  \/ ClientMainFinally
  \/ ClientMainReturns
  \/ ClientSignal
  \/ ClientSignalExit

SpecClientSession == InitClientSession /\ [][NextClientSession]_vars

(***************************************************************************)
(* The registry under every combination of provider catalogs: one turn     *)
(* with one tool call on top of each.                                      *)
(***************************************************************************)
InitRegistry ==
  /\ catalog \in [Provider -> Catalogs]
  /\ InitOrchestrator({ChatThread}, MaxTurns - 1, 1)

SpecRegistry == InitRegistry /\ [][Next]_vars

(***************************************************************************)
(* The ReAct loop against a planner stub: whenever the stub returns tool   *)
(* calls it returns the same one, and the provider always answers it, so   *)
(* that a turn can run up to the recursion limit.                          *)
(***************************************************************************)
StubPlan == <<[name |-> "create_draft", input |-> "json"]>>

StubReplies == {[kind |-> "result", text |-> "done", isError |-> FALSE]}

\* plan-execute cycles a turn can run: two graph steps each
MaxCycles == RecursionLimit \div 2

InitLoop ==
  /\ catalog \in SessionCatalogs
  /\ InitOrchestrator({ChatThread}, 0, MaxTurns * MaxCycles)

StubProposes == AgentProposes(StubPlan)

StubReply(i) == \E r \in StubReplies : Reply(i, r)

NextLoop ==
  \/ Connect
  \/ \E t \in ThreadIds : ProcessQuery(t)
  \/ AgentFinal
  \/ AgentFails
  \/ StubProposes
  \/ \E i \in 1..MaxPlan : StartCall(i)
  \/ \E i \in 1..MaxPlan : StubReply(i)
  \/ ToolsDone

SpecLoop == InitLoop /\ [][NextLoop]_vars

\* every planner call and every provider call eventually returns or fails,
\* and the agent's graph keeps stepping
SpecLoopFair ==
  /\ SpecLoop
  /\ WF_vars(AgentFinal \/ AgentFails \/ StubProposes)
  /\ WF_vars(\E i \in 1..MaxPlan : StartCall(i))
  /\ WF_vars(\E i \in 1..MaxPlan : StubReply(i))
  /\ WF_vars(ToolsDone)

(***************************************************************************)
(* Startup and teardown, await by await: main constructs the orchestrator, *)
(* connect starts the three services one after another, and disconnect     *)
(* closes the clients and then kills the processes.  A connection attempt, *)
(* listTools and the close of a connection can fail.                       *)
(***************************************************************************)
\* the order of the awaits of connect
ConnectOrder == <<"filesystem", "gmail", "search">>

\* pc while connect awaits the connection of ConnectOrder[k]
Connecting(k) == "connect_" \o ConnectOrder[k]
ConnectStages == {Connecting(k) : k \in 1..Len(ConnectOrder)}

InitLifecycle ==
  /\ catalog \in SessionCatalogs
  /\ apiKey \in BOOLEAN
  /\ pc = "start"
  /\ tools = <<>>
  /\ isConnected = FALSE
  /\ agent = FALSE
  /\ thread = ChatThread
  /\ history = [t \in {ChatThread} |-> <<>>]
  /\ step = 0
  /\ plan = <<>>
  /\ status = <<>>
  /\ request = <<>>
  /\ reply = <<>>
  /\ result = <<>>
  /\ callCount = [p \in Provider |-> 0]
  /\ sentLog = {}
  /\ turns = 0
  /\ callsLeft = 0
  /\ outcome = "none"
  /\ proc = [p \in Provider |-> "none"]
  /\ conn = [p \in Provider |-> "none"]
  /\ line = NoLine
  /\ main = "api"
  /\ sig = "none"
  /\ fsOps = {}
  /\ rootPath = "null"

\* a constructor that does not validate the environment
ConstructUnchecked ==
  /\ pc = "start"
  /\ pc' = "Idle"
  /\ UNCHANGED <<turnVars, lifeVars, outcome>>

\* main: new EchoOrchestrator(); validateEnvironment throws without the key
\* and main ends before connect is called
Construct ==
  /\ pc = "start"
  /\ IF apiKey
       THEN pc' = "Idle" /\ UNCHANGED outcome
       ELSE pc' = "no_orchestrator" /\ outcome' = "fatal"
  /\ UNCHANGED <<turnVars, lifeVars>>

\* a connect that starts all three processes before its first await
ConnectStartSpawnsAll ==
  /\ pc = "Idle"
  /\ ~isConnected /\ ~agent
  /\ \A p \in Provider : proc[p] = "none"
  /\ proc' = [p \in Provider |-> "running"]
  /\ pc' = Connecting(1)
  /\ UNCHANGED <<turnVars, mainVars, conn, outcome>>

\* a connect that sets isConnected before it awaits the first service
ConnectStartFlagsFirst ==
  /\ pc = "Idle"
  /\ ~isConnected /\ ~agent
  /\ \A p \in Provider : proc[p] = "none"
  /\ proc' = [proc EXCEPT ![ConnectOrder[1]] = "running"]
  /\ pc' = Connecting(1)
  /\ isConnected' = TRUE
  /\ UNCHANGED <<catalog, tools, agent, thread, history, step, plan, status,
                 request, reply, result, callCount, sentLog, turns, callsLeft,
                 mainVars, conn, outcome>>

\* connect up to its first await: connectFilesystemService spawns the process
\* and awaits fsClient.connect
ConnectStart ==
  /\ pc = "Idle"
  /\ ~isConnected /\ ~agent
  /\ \A p \in Provider : proc[p] = "none"
  /\ proc' = [proc EXCEPT ![ConnectOrder[1]] = "running"]
  /\ pc' = Connecting(1)
  /\ UNCHANGED <<turnVars, mainVars, conn, outcome>>

\* the awaited client.connect of the k-th service resolves: the next service
\* is started (spawn, then await its connect), or listTools is awaited
ConnectService(k) ==
  /\ pc = Connecting(k)
  /\ conn' = [conn EXCEPT ![ConnectOrder[k]] = "open"]
  /\ IF k < Len(ConnectOrder)
       THEN /\ proc' = [proc EXCEPT ![ConnectOrder[k + 1]] = "running"]
            /\ pc' = Connecting(k + 1)
       ELSE /\ pc' = "aggregate"
            /\ UNCHANGED proc
  /\ UNCHANGED <<turnVars, mainVars, outcome>>

\* aggregateTools resolves: the agent is initialised and connect returns
Aggregate ==
  /\ pc = "aggregate"
  /\ tools' = aggregateTools(catalog)
  /\ agent' = TRUE
  /\ isConnected' = TRUE
  /\ pc' = "Idle"
  /\ UNCHANGED <<catalog, thread, history, step, plan, status, request, reply,
                 result, callCount, sentLog, turns, callsLeft, outcome,
                 lifeVars>>

\* the connections close() is called on and may reject
Closable == {p \in Provider : conn[p] \in {"open", "close_failed"}}

\* the close of every client is called; those of F reject
CloseAll(F) ==
  conn' = [p \in Provider |->
             IF p \in Closable
               THEN (IF p \in F THEN "close_failed" ELSE "closed")
               ELSE conn[p]]

\* a catch that only rethrows: nothing is torn down
ConnectFailsNoTeardown(F) ==
  /\ pc \in ConnectStages \cup {"aggregate"}
  /\ F = {}
  /\ outcome' = "connect_error"
  /\ pc' = "Idle"
  /\ UNCHANGED <<turnVars, lifeVars>>

\* an await of connect rejects: the catch logs and calls disconnect, which
\* calls close on the three clients and awaits them
ConnectFails(F) ==
  /\ pc \in ConnectStages \cup {"aggregate"}
  /\ F \subseteq Closable
  /\ outcome' = "connect_error"
  /\ CloseAll(F)
  /\ pc' = "closing"
  /\ UNCHANGED <<turnVars, mainVars, proc>>

\* disconnect with Promise.all: a rejected close ends disconnect
DisconnectCloseUnsettled(F) ==
  /\ pc = "Idle"
  /\ F \subseteq Closable
  /\ CloseAll(F)
  /\ IF F = {}
       THEN pc' = "closing" /\ UNCHANGED outcome
       ELSE pc' = "Idle" /\ outcome' = "disconnect_error"
  /\ UNCHANGED <<turnVars, mainVars, proc>>

\* disconnect up to await Promise.allSettled: close is called on the three
\* clients (from main's finally, a signal handler or any other caller)
DisconnectClose(F) ==
  /\ pc = "Idle"
  /\ F \subseteq Closable
  /\ CloseAll(F)
  /\ pc' = "closing"
  /\ UNCHANGED <<turnVars, mainVars, proc, outcome>>

\* a kill that throws for a process that was killed before
DisconnectKillOnce ==
  /\ pc = "closing"
  /\ pc' = "Idle"
  /\ IF \E p \in Provider : proc[p] = "killed"
       THEN /\ outcome' = "disconnect_error"
            /\ UNCHANGED <<proc, isConnected>>
       ELSE /\ proc' = [p \in Provider |->
                         IF proc[p] = "none" THEN "none" ELSE "killed"]
            /\ isConnected' = FALSE
            /\ UNCHANGED outcome
  /\ UNCHANGED <<catalog, tools, agent, thread, history, step, plan, status,
                 request, reply, result, callCount, sentLog, turns, callsLeft,
                 mainVars, conn>>

\* the rest of disconnect: the closes have settled, the processes that were
\* spawned are killed and isConnected = false; a disconnect called by
\* connect's catch is followed by the rethrow
DisconnectKill ==
  /\ pc = "closing"
  /\ pc' = "Idle"
  /\ proc' = [p \in Provider |-> IF proc[p] = "none" THEN "none" ELSE "killed"]
  /\ isConnected' = FALSE
  /\ UNCHANGED <<catalog, tools, agent, thread, history, step, plan, status,
                 request, reply, result, callCount, sentLog, turns, callsLeft,
                 mainVars, conn, outcome>>

NextLifecycle ==
  \/ Construct
  \/ ConnectStart
  \/ \E k \in 1..Len(ConnectOrder) : ConnectService(k)
  \/ Aggregate
  \/ \E F \in SUBSET Provider : ConnectFails(F)
  \/ \E F \in SUBSET Provider : DisconnectClose(F)
  \/ DisconnectKill

SpecLifecycle == InitLifecycle /\ [][NextLifecycle]_vars

(***************************************************************************)
(* The orchestrator as a process: main constructs it, installs the signal  *)
(* handlers, connects, runs the chat loop on the lines of stdin and        *)
(* disconnects in its finally block.                                       *)
(***************************************************************************)
\* isExitCommand: input.toLowerCase().trim() is quit or exit
isExitCommand(l) == normalize(l) \in {"quit", "exit"}

InitSession ==
  /\ catalog = [filesystem |-> <<"read_file">>,
                gmail |-> <<"quality_check", "create_draft">>,
                search |-> <<>>]
  /\ pc = "start"
  /\ main = "startup"
  /\ line = NoLine
  /\ sig = "none"
  /\ fsOps = {}
  /\ rootPath = "null"
  /\ apiKey = TRUE
  /\ tools = <<>>
  /\ isConnected = FALSE
  /\ agent = FALSE
  /\ thread = ChatThread
  /\ history = [t \in {ChatThread} |-> <<>>]
  /\ step = 0
  /\ plan = <<>>
  /\ status = <<>>
  /\ request = <<>>
  /\ reply = <<>>
  /\ result = <<>>
  /\ callCount = [p \in Provider |-> 0]
  /\ sentLog = {}
  /\ turns = 0
  /\ callsLeft = 1
  /\ outcome = "none"
  /\ proc = [p \in Provider |-> "none"]
  /\ conn = [p \in Provider |-> "none"]

\* main calls connect
MainConnect == main = "startup" /\ ConnectStart

\* an await of connect resolves; once a signal handler has called close on
\* the clients the awaited connect or listTools can only reject
MainConnectService(k) == sig = "none" /\ ConnectService(k)

MainAggregate == sig = "none" /\ Aggregate

\* connect has thrown: main's catch calls process.exit(1)
MainCatch ==
  /\ main = "startup"
  /\ pc = "Idle"
  /\ outcome = "connect_error"
  /\ pc' = "exited"
  /\ UNCHANGED <<turnVars, lifeVars, outcome>>

\* connect has returned: main calls startChatLoop, which creates the thread
\* id and awaits the first line
EnterChat ==
  /\ main = "startup"
  /\ pc = "Idle"
  /\ isConnected
  /\ main' = "chat"
  /\ UNCHANGED <<turnVars, pc, outcome, envVars, line, sig, proc, conn>>

\* a chat loop that does not await processQuery before it reads on
ChatLineNoAwait(l) ==
  /\ main = "chat"
  /\ pc \in {"Idle", "agent", "tools"}
  /\ line.n < MaxLines
  /\ turns < MaxTurns
  /\ line' = [n |-> line.n + 1, text |-> l]
  /\ IF isExitCommand(l)
       THEN /\ main' = "finally"
            /\ UNCHANGED <<turnVars, pc, outcome>>
       ELSE IF normalize(l) = ""
         THEN UNCHANGED <<turnVars, pc, outcome, main>>
         ELSE Query(ChatThread) /\ UNCHANGED main
  /\ UNCHANGED <<envVars, sig, proc, conn>>

\* one pass of the while loop of startChatLoop, from the line rl.question
\* returns to the next await
ChatLine(l) ==
  /\ main = "chat"
  /\ pc = "Idle"
  /\ line.n < MaxLines
  /\ turns < MaxTurns
  /\ line' = [n |-> line.n + 1, text |-> l]
  /\ IF isExitCommand(l)
       THEN /\ main' = "finally"
            /\ UNCHANGED <<turnVars, pc, outcome>>
       ELSE IF normalize(l) = ""
         THEN UNCHANGED <<turnVars, pc, outcome, main>>
         ELSE Query(ChatThread) /\ UNCHANGED main
  /\ UNCHANGED <<envVars, sig, proc, conn>>

\* rl.question rejects (the input has ended): startChatLoop closes the
\* interface and rethrows, main's catch logs the error and calls
\* process.exit(1), which ends the process before the finally block runs
ChatLoopThrows ==
  /\ main = "chat"
  /\ pc = "Idle"
  /\ outcome' = "fatal"
  /\ pc' = "exited"
  /\ UNCHANGED <<turnVars, lifeVars>>

\* main's finally: await orchestrator.disconnect()
MainFinally(F) == main = "finally" /\ isConnected /\ DisconnectClose(F)

\* disconnect has run and main returns
MainReturns ==
  /\ main = "finally"
  /\ pc = "Idle"
  /\ ~isConnected
  /\ main' = "returned"
  /\ UNCHANGED <<turnVars, pc, outcome, envVars, line, sig, proc, conn>>

\* SIGINT or SIGTERM: the handler calls disconnect, which calls close on the
\* three clients and awaits them
Signal(F) ==
  /\ sig = "none"
  /\ pc \notin {"start", "no_orchestrator", "exited"}
  /\ main # "returned"
  /\ F \subseteq Closable
  /\ CloseAll(F)
  /\ sig' = "closing"
  /\ UNCHANGED <<turnVars, pc, outcome, envVars, line, main, proc>>

\* the closes have settled: the handler's disconnect kills the processes,
\* isConnected = false, and the handler calls process.exit(0)
SignalExit ==
  /\ sig = "closing"
  /\ pc # "exited"
  /\ proc' = [p \in Provider |-> IF proc[p] = "none" THEN "none" ELSE "killed"]
  /\ isConnected' = FALSE
  /\ sig' = "done"
  /\ pc' = "exited"
  /\ UNCHANGED <<catalog, tools, agent, thread, history, step, plan, status,
                 request, reply, result, callCount, sentLog, turns, callsLeft,
                 outcome, envVars, line, main, conn>>

NextSession ==
  \/ Construct
  \/ MainConnect
  \/ \E k \in 1..Len(ConnectOrder) : MainConnectService(k)
  \/ MainAggregate
  \/ \E F \in SUBSET Provider : ConnectFails(F)
  \/ DisconnectKill
  \/ MainCatch
  \/ EnterChat
  \/ \E l \in Lines : ChatLine(l)
  \/ AgentFinal
  \/ \E p \in Plans : AgentProposes(p)
  \/ AgentFails
  \/ \E i \in 1..MaxPlan : StartCall(i)
  \/ \E i \in 1..MaxPlan : \E r \in Replies("quality_check") \cup Replies("create_draft") : Reply(i, r)
  \/ ToolsDone
  \/ ChatLoopThrows
  \/ \E F \in SUBSET Provider : MainFinally(F)
  \/ MainReturns
  \/ \E F \in SUBSET Provider : Signal(F)
  \/ SignalExit

SpecSession == InitSession /\ [][NextSession]_vars

(***************************************************************************)
(* The same process when nothing is assumed about the clients after close  *)
(* was called on them: while the signal handler awaits the closes, an      *)
(* await of connect may still resolve (and connect go on to spawn the next *)
(* provider) or reject.                                                    *)
(***************************************************************************)
NextShutdown ==
  \/ Construct
  \/ MainConnect
  \/ \E k \in 1..Len(ConnectOrder) : ConnectService(k)
  \/ Aggregate
  \/ \E F \in SUBSET Provider : ConnectFails(F)
  \/ DisconnectKill
  \/ MainCatch
  \/ EnterChat
  \/ \E l \in Lines : ChatLine(l)
  \/ AgentFinal
  \/ \E p \in Plans : AgentProposes(p)
  \/ AgentFails
  \/ \E i \in 1..MaxPlan : StartCall(i)
  \/ \E i \in 1..MaxPlan : \E r \in Replies("quality_check") \cup Replies("create_draft") : Reply(i, r)
  \/ ToolsDone
  \/ ChatLoopThrows
  \/ \E F \in SUBSET Provider : MainFinally(F)
  \/ MainReturns
  \/ \E F \in SUBSET Provider : Signal(F)
  \/ SignalExit

SpecShutdown == InitSession /\ [][NextShutdown]_vars

(***************************************************************************)
(* The Gmail provider of src/gmail-server.ts under a client that lists its *)
(* tools and sends it callTool requests (as the test client does).         *)
(***************************************************************************)
\* the tools of the ListTools handler, in its order
GmailListTools ==
  <<"list_emails", "read_email", "create_draft", "send_email",
    "summarize_thread">>

\* the cases of the switch of the CallTool handler
GmailCases ==
  {"list_emails", "read_email", "create_draft", "send_email",
   "summarize_thread"}

\* the tool names a client may ask for
GmailRequestNames == GmailCases \cup {"quality_check"}

\* what the handler meets: no token file (authorize throws), an API call
\* that rejects, or an API that answers
GmailApi == {"ok", "no_token", "fail"}

\* the CallTool handler: authorize comes first, then the case of the tool
\* runs against the Gmail API; the default case throws Unknown tool; the
\* catch turns every error into an isError result
GmailCallTool(name, api) ==
  IF api = "no_token"
    THEN [kind |-> "result", text |-> "Error: No valid token", isError |-> TRUE]
  ELSE IF name \notin GmailCases
    THEN [kind |-> "result", text |-> "Error: Unknown tool", isError |-> TRUE]
    ELSE IF api = "fail"
      THEN [kind |-> "result", text |-> "Error", isError |-> TRUE]
      ELSE [kind |-> "result", text |-> "done", isError |-> FALSE]

\* the Gmail API methods the case of a tool calls
GmailMethods(name) ==
  CASE name = "list_emails" -> {"messages.list", "messages.get"}
    [] name = "read_email" -> {"messages.get"}
    [] name = "create_draft" -> {"getProfile", "drafts.create"}
    [] name = "send_email" -> {"getProfile", "messages.send"}
    [] name = "summarize_thread" -> {"threads.get"}
    [] OTHER -> {}

\* the API calls the handler carried out for a request
GmailApiCalls(name, api) ==
  IF api = "ok" /\ name \in GmailCases THEN GmailMethods(name) ELSE {}

InitGmail ==
  /\ catalog = [filesystem |-> <<>>, gmail |-> GmailListTools, search |-> <<>>]
  /\ InitOrchestrator({ChatThread}, 0, MaxCalls)

\* client.connect and client.listTools
GmailClientLists ==
  /\ ~isConnected
  /\ conn' = [conn EXCEPT !["gmail"] = "open"]
  /\ tools' = TagTools(catalog["gmail"], "gmail")
  /\ isConnected' = TRUE
  /\ UNCHANGED <<mainVars, proc, catalog, agent, pc, thread, history, step,
                 plan, status, request, reply, result, callCount, sentLog,
                 turns, callsLeft, outcome>>

\* client.callTool({name, arguments}): the request and the server's result
GmailClientCalls(name, api) ==
  /\ isConnected
  /\ callsLeft > 0
  /\ callsLeft' = callsLeft - 1
  /\ plan' = Append(plan, [name |-> name, input |-> "json"])
  /\ status' = Append(status, "done")
  /\ request' = Append(request,
       [provider |-> "gmail", name |-> name, args |-> "object"])
  /\ reply' = Append(reply, GmailCallTool(name, api))
  /\ result' = Append(result, GmailCallTool(name, api).text)
  /\ fsOps' = fsOps \cup
       {[call |-> Len(request) + 1, op |-> o, path |-> <<>>] :
          o \in GmailApiCalls(name, api)}
  /\ callCount' = [callCount EXCEPT !["gmail"] = @ + 1]
  /\ sentLog' = sentLog \cup {[provider |-> "gmail", name |-> name]}
  /\ UNCHANGED <<apiKey, rootPath, line, main, sig, proc, conn, catalog,
                 tools, isConnected, agent, pc, thread, history, step, turns,
                 outcome>>

NextGmail ==
  \/ GmailClientLists
  \/ \E n \in GmailRequestNames : \E api \in GmailApi :
       GmailClientCalls(n, api)

SpecGmail == InitGmail /\ [][NextGmail]_vars

(***************************************************************************)
(* The filesystem provider (the server kept in src/authenticate-gmail.ts)  *)
(* under a client that sends it callTool requests.  A path is a sequence   *)
(* of segments, absolute or relative; the root is an existing directory.   *)
(***************************************************************************)
\* the cases of the switch of the CallTool handler
FsTools ==
  {"read_file", "write_file", "create_directory", "list_directory",
   "delete_file"}

\* path segments: a name, the parent, the directory itself, and a name that
\* contains two dots
Segments == {"a", "..", ".", "a..b"}

\* the path arguments a client may send
FsPaths == [abs : BOOLEAN, segs : SeqsUpTo(Segments, MaxPath)]

\* state.rootPath: the resolved root directory
Root == <<"ws">>

\* path.normalize on the segments: "." is dropped, ".." removes the segment
\* before it, is dropped at the top of an absolute path and is kept at the
\* front of a relative one
RECURSIVE normalizeSegs(_, _, _)
normalizeSegs(segs, abs, acc) ==
  IF segs = <<>> THEN acc
  ELSE LET s == Head(segs) IN
    IF s = "." THEN normalizeSegs(Tail(segs), abs, acc)
    ELSE IF s = ".."
      THEN IF Len(acc) > 0 /\ acc[Len(acc)] # ".."
             THEN normalizeSegs(Tail(segs), abs, SubSeq(acc, 1, Len(acc) - 1))
             ELSE IF abs THEN normalizeSegs(Tail(segs), abs, acc)
             ELSE normalizeSegs(Tail(segs), abs, Append(acc, ".."))
      ELSE normalizeSegs(Tail(segs), abs, Append(acc, s))

pathNormalize(p) ==
  [abs |-> p.abs, segs |-> normalizeSegs(p.segs, p.abs, <<>>)]

\* normalized.includes("..")
includesDotDot(p) == \E i \in 1..Len(p.segs) : p.segs[i] \in {"..", "a..b"}

\* a sanitizePath that only normalizes
sanitizePathUnchecked(p) == [ok |-> TRUE, path |-> pathNormalize(p)]

\* sanitizePath: normalize, and throw when the result contains ".."
sanitizePath(p) ==
  IF includesDotDot(pathNormalize(p))
    THEN [ok |-> FALSE, path |-> pathNormalize(p)]
    ELSE [ok |-> TRUE, path |-> pathNormalize(p)]

\* path.join(rootPath, filePath): the segments are put after the root's
\* (also those of an absolute path) and the result is normalized
pathJoin(root, p) == normalizeSegs(root \o p.segs, TRUE, <<>>)

\* path.dirname of a full path
pathDirname(full) ==
  IF Len(full) = 0 THEN full ELSE SubSeq(full, 1, Len(full) - 1)

\* fs.mkdir(d, {recursive: true}): the directories it creates; the root and
\* the directories above it exist
mkdirCreates(d) ==
  {SubSeq(d, 1, k) : k \in 1..Len(d)} \ {SubSeq(Root, 1, k) : k \in 1..Len(Root)}

FsThrow == [kind |-> "throw", text |-> "", isError |-> FALSE]
FsDone == [kind |-> "result", text |-> "done", isError |-> FALSE]

\* the CallTool handler on tool name with the path p; exists: whether
\* fs.access finds the full path.  It yields the reply and the file-system
\* operations performed
FsCallTool(name, p, exists) ==
  LET s == sanitizePath(p)
      full == pathJoin(Root, s.path)
      Op(o, q) == [op |-> o, path |-> q]
  IN
  IF ~s.ok THEN [reply |-> FsThrow, ops |-> {}]
  ELSE CASE name = "read_file" ->
              IF exists
                THEN [reply |-> FsDone,
                      ops |-> {Op("access", full), Op("readFile", full)}]
                ELSE [reply |-> FsThrow, ops |-> {Op("access", full)}]
         [] name = "write_file" ->
              [reply |-> FsDone,
               ops |-> {Op("mkdir", d) : d \in mkdirCreates(pathDirname(full))}
                         \cup {Op("writeFile", full)}]
         [] name = "create_directory" ->
              [reply |-> FsDone,
               ops |-> {Op("mkdir", d) : d \in mkdirCreates(full)}]
         [] name = "list_directory" ->
              IF exists
                THEN [reply |-> FsDone,
                      ops |-> {Op("access", full), Op("readdir", full)}]
                ELSE [reply |-> FsThrow, ops |-> {Op("access", full)}]
         [] name = "delete_file" ->
              IF exists
                THEN [reply |-> FsDone,
                      ops |-> {Op("access", full), Op("unlink", full)}]
                ELSE [reply |-> FsThrow, ops |-> {Op("access", full)}]

\* the server has started on the root
InitFs ==
  /\ catalog = [filesystem |-> <<"read_file">>, gmail |-> <<>>, search |-> <<>>]
  /\ InitState({ChatThread}, 0, 1)
  /\ rootPath = "root"

\* client.callTool({name, arguments: {path}}): the request, the server's
\* reply and the operations the handler performed for it
FsClientCalls(name, p, exists) ==
  /\ callsLeft > 0
  /\ callsLeft' = callsLeft - 1
  /\ plan' = Append(plan, [name |-> name, input |-> "json"])
  /\ status' = Append(status, "done")
  /\ request' = Append(request,
       [provider |-> "filesystem", name |-> name, args |-> p])
  /\ reply' = Append(reply, FsCallTool(name, p, exists).reply)
  /\ result' = Append(result, FsCallTool(name, p, exists).reply.text)
  /\ fsOps' = fsOps \cup
       {[call |-> Len(request) + 1, op |-> e.op, path |-> e.path] :
          e \in FsCallTool(name, p, exists).ops}
  /\ callCount' = [callCount EXCEPT !["filesystem"] = @ + 1]
  /\ sentLog' = sentLog \cup {[provider |-> "filesystem", name |-> name]}
  /\ UNCHANGED <<apiKey, rootPath, line, main, sig, proc, conn, catalog,
                 tools, isConnected, agent, pc, thread, history, step, turns,
                 outcome>>

NextFs ==
  \E n \in FsTools : \E p \in FsPaths : \E e \in BOOLEAN : FsClientCalls(n, p, e)

SpecFs == InitFs /\ [][NextFs]_vars

(***************************************************************************)
(* The filesystem server as a process: main initialises the root, connects *)
(* the stdio transport and then serves the requests of one client.         *)
(***************************************************************************)
\* the tools of the ListTools handler, in its order
FsListTools ==
  <<"read_file", "write_file", "create_directory", "list_directory",
    "delete_file">>

\* the tool names a client may ask for
FsRequestNames == FsTools \cup {"quality_check"}

\* what the server is started with: no argument, a directory fs.access
\* finds, or one it does not find
FsRootArgs == {"missing", "accessible", "inaccessible"}

\* the path of a request that has no arguments
NoPath == [abs |-> FALSE, segs |-> <<>>]

FsNoRoot == [kind |-> "throw", text |-> "Root path not set", isError |-> FALSE]
FsBadArgs ==
  [kind |-> "throw", text |-> "Invalid arguments provided", isError |-> FALSE]
FsUnknown ==
  [kind |-> "throw", text |-> "Tool execution failed: Unknown tool",
   isError |-> FALSE]

\* a handler whose switch runs read_file for a name it has no case for
FsHandleCallFallsThrough(name, input, p, exists) ==
  IF rootPath = "null" THEN [reply |-> FsNoRoot, ops |-> {}]
  ELSE IF input = "none" THEN [reply |-> FsBadArgs, ops |-> {}]
  ELSE IF name \notin FsTools THEN FsCallTool("read_file", p, exists)
  ELSE FsCallTool(name, p, exists)

\* the CallTool handler from its first statement: validateRootPath, the
\* check that the arguments are an object (input "none": they are absent),
\* then the switch, whose default case throws Unknown tool
FsHandleCall(name, input, p, exists) ==
  IF rootPath = "null" THEN [reply |-> FsNoRoot, ops |-> {}]
  ELSE IF input = "none" THEN [reply |-> FsBadArgs, ops |-> {}]
  ELSE IF name \notin FsTools THEN [reply |-> FsUnknown, ops |-> {}]
  ELSE FsCallTool(name, p, exists)

InitFsServer ==
  /\ catalog = [filesystem |-> FsListTools, gmail |-> <<>>, search |-> <<>>]
  /\ pc = "start"
  /\ tools = <<>>
  /\ isConnected = FALSE
  /\ agent = FALSE
  /\ thread = ChatThread
  /\ history = [t \in {ChatThread} |-> <<>>]
  /\ step = 0
  /\ plan = <<>>
  /\ status = <<>>
  /\ request = <<>>
  /\ reply = <<>>
  /\ result = <<>>
  /\ callCount = [p \in Provider |-> 0]
  /\ sentLog = {}
  /\ turns = 0
  /\ callsLeft = 1
  /\ outcome = "none"
  /\ apiKey = TRUE
  /\ proc = [p \in Provider |-> "none"]
  /\ conn = [p \in Provider |-> "none"]
  /\ line = NoLine
  /\ main = "api"
  /\ sig = "none"
  /\ fsOps = {}
  /\ rootPath = "null"

\* a main that connects the transport before it initialises the root
FsServerStartConnectsFirst(arg) ==
  /\ pc = "start"
  /\ arg \in FsRootArgs
  /\ IF arg = "missing"
       THEN pc' = "exited" /\ outcome' = "usage" /\ UNCHANGED conn
       ELSE /\ conn' = [conn EXCEPT !["filesystem"] = "open"]
            /\ pc' = "initialized"
            /\ UNCHANGED outcome
  /\ UNCHANGED <<turnVars, mainVars, proc>>

\* main up to the await of server.connect: without an argument it prints the
\* usage and exits; initializeServer sets state.rootPath when fs.access finds
\* the resolved directory, otherwise it throws and main's catch exits
FsServerStart(arg) ==
  /\ pc = "start"
  /\ arg \in FsRootArgs
  /\ IF arg = "accessible"
       THEN /\ rootPath' = "root"
            /\ pc' = "initialized"
            /\ UNCHANGED outcome
       ELSE /\ pc' = "exited"
            /\ outcome' = IF arg = "missing" THEN "usage" ELSE "fatal"
            /\ UNCHANGED rootPath
  /\ UNCHANGED <<turnVars, apiKey, fsOps, line, main, sig, proc, conn>>

\* server.connect(transport) resolves: the server reads requests from stdin
FsServerConnect ==
  /\ pc = "initialized"
  /\ conn' = [conn EXCEPT !["filesystem"] = "open"]
  /\ pc' = "serving"
  /\ UNCHANGED <<turnVars, mainVars, proc, outcome>>

\* a ListTools request: the handler returns its list
FsServerLists ==
  /\ conn["filesystem"] = "open"
  /\ tools = <<>>
  /\ tools' = TagTools(FsListTools, "filesystem")
  /\ UNCHANGED <<catalog, isConnected, agent, pc, thread, history, step, plan,
                 status, request, reply, result, callCount, sentLog, turns,
                 callsLeft, outcome, lifeVars>>

\* a CallTool request: the request, the handler's reply and the operations
\* it performed
FsServerCalls(name, input, p, exists) ==
  /\ conn["filesystem"] = "open"
  /\ callsLeft > 0
  /\ input = "none" => (p = NoPath /\ exists)
  /\ callsLeft' = callsLeft - 1
  /\ plan' = Append(plan, [name |-> name, input |-> input])
  /\ status' = Append(status, "done")
  /\ request' = Append(request,
       [provider |-> "filesystem", name |-> name, args |-> p])
  /\ reply' = Append(reply, FsHandleCall(name, input, p, exists).reply)
  /\ result' = Append(result, FsHandleCall(name, input, p, exists).reply.text)
  /\ fsOps' = fsOps \cup
       {[call |-> Len(request) + 1, op |-> e.op, path |-> e.path] :
          e \in FsHandleCall(name, input, p, exists).ops}
  /\ callCount' = [callCount EXCEPT !["filesystem"] = @ + 1]
  /\ sentLog' = sentLog \cup {[provider |-> "filesystem", name |-> name]}
  /\ UNCHANGED <<apiKey, rootPath, line, main, sig, proc, conn, catalog,
                 tools, isConnected, agent, pc, thread, history, step, turns,
                 outcome>>

NextFsServer ==
  \/ \E a \in FsRootArgs : FsServerStart(a)
  \/ FsServerConnect
  \/ FsServerLists
  \/ \E n \in FsRequestNames : \E i \in {"json", "none"} : \E p \in FsPaths :
       \E e \in BOOLEAN : FsServerCalls(n, i, p, e)

SpecFsServer == InitFsServer /\ [][NextFsServer]_vars

\* the orchestrator called with the thread ids of two conversations
InitThreads ==
  /\ catalog \in SessionCatalogs
  /\ InitOrchestrator(ThreadIds, 0, 1)

SpecThreads == InitThreads /\ [][Next]_vars

(***************************************************************************)
(* Properties.                                                             *)
(***************************************************************************)
Names(s) == {s[i] : i \in 1..Len(s)}

\* no tool name is listed by two providers
DisjointCatalogs ==
  \A p, q \in Provider :
    p # q => Names(catalog[p]) \cap Names(catalog[q]) = {}

\* the verdict of a passing quality_check
PassText == "OK"

\* tool-message texts that report a failure to the planner
FailureTexts ==
  {"Error executing tool", "Error: tool not found", "Tool execution failed"}

\* properties a tool's inputSchema requires
RequiredProps(name) ==
  CASE name = "read_file" -> {"path"}
    [] name = "create_draft" -> {"to", "subject", "body"}
    [] name = "quality_check" -> {"text"}

\* the arguments of a request satisfy the schema of the tool: the planner's
\* object does, the wrapper {query: input} only when nothing else is required
SchemaOK(name, args) ==
  \/ args = "object"
  \/ args = "query_object" /\ RequiredProps(name) \subseteq {"query"}

\* index of the last user message of a thread (0 when there is none)
LastHuman(h) ==
  IF \E i \in 1..Len(h) : h[i].role = "human"
    THEN CHOOSE i \in 1..Len(h) :
           /\ h[i].role = "human"
           /\ \A j \in (i + 1)..Len(h) : h[j].role # "human"
    ELSE 0

\* a message that records a passing validating tool
IsPass(m) == m.role = "tool" /\ m.name \in ValidatingTools /\ m.text = PassText

\* a validating tool has passed earlier in the turn in progress: in a previous
\* cycle of the turn, or among the completed calls of the current plan
PassedThisTurn ==
  \/ \E i \in (LastHuman(history[thread]) + 1)..Len(history[thread]) :
       IsPass(history[thread][i])
  \/ \E i \in 1..Len(plan) :
       /\ status[i] = "done"
       /\ plan[i].name \in ValidatingTools
       /\ reply[i].kind = "result" /\ ~reply[i].isError
       /\ result[i] = PassText

\* a validating tool has passed in an earlier turn of the thread
PassedInEarlierTurn ==
  \E i \in 1..LastHuman(history[thread]) : IsPass(history[thread][i])

\* this step sends the provider request of the i-th call, a gated tool
GatedSent(i) ==
  /\ pc = "tools" /\ pc' = "tools"
  /\ status[i] = "pending" /\ status'[i] = "sent"
  /\ plan[i].name \in GatedTools

\* C1: the provider call of a gated tool is never made unless a validating
\* tool ran earlier in the same turn and returned a passing Success; this
\* covers the empty turn and the validating call that failed.
C1_GatedOnlyAfterPass ==
  [][\A i \in 1..Len(plan) : GatedSent(i) => PassedThisTurn]_vars

\* C2: for a plan of a validating call that passes followed by a gated call,
\* the validating call completes before the gated request is sent, and both
\* have been dispatched when the plan is done.
C2_PassBeforeGatedIsSent ==
  [][(/\ pc = "tools"
      /\ Len(plan) = 2
      /\ plan[1].name \in ValidatingTools
      /\ plan[2].name \in GatedTools)
     => /\ (status[1] = "sent" /\ status'[1] = "done" /\ result'[1] = PassText)
             => status[2] = "pending"
        /\ (pc' # "tools" /\ result[1] = PassText)
             => reply[1].kind = "result" /\ reply[2].kind # "none"]_vars

\* C3: a pass recorded in an earlier turn of the session does not authorise a
\* gated tool in a later turn: a gated request is never sent in a turn that
\* has no pass of its own, even if an earlier turn had one.
C3_NoPassCarriedOver ==
  [][\A i \in 1..Len(plan) :
       ~(GatedSent(i) /\ PassedInEarlierTurn /\ ~PassedThisTurn)]_vars

\* C4: no rejection is silent: when the calls of a planner response are over,
\* every call that was not dispatched to a provider has exactly one tool
\* message with a failure text among the messages appended for that response.
C4_RejectionHasFailureMessage ==
  [][(pc = "tools" /\ pc' # "tools") =>
       \A i \in 1..Len(plan) : reply[i].kind = "none" =>
         LET h == history'[thread]
             from == Len(h) - Len(plan) + 1
         IN /\ from >= 1
            /\ Cardinality({k \in from..Len(h) :
                  /\ h[k].role = "tool" /\ h[k].id = i
                  /\ h[k].text \in FailureTexts}) = 1]_vars

\* C5: a proposed invocation whose tool name no connected provider listed is
\* never sent to a provider: every request ever sent names a listed tool.
C5_UnknownToolNeverSent ==
  \A r \in sentLog : \E p \in Provider : r.name \in Names(catalog[p])

\* C6: an invocation whose arguments do not satisfy the tool's schema
\* (unparseable arguments included) is rejected and no provider call is made
\* for it: the request sent for a call of the plan always carries arguments
\* that fit the schema of the tool.
C6_NoRequestWithInvalidArgs ==
  \A i \in 1..Len(request) :
    request[i] # NoRequest => SchemaOK(request[i].name, request[i].args)

\* C7: when two providers declare the same tool name, building the registry
\* fails and startup aborts: the registry never holds two entries with the same
\* name, and the orchestrator is never connected on colliding catalogs.
C7_NoDuplicateToolNames ==
  /\ \A i, j \in 1..Len(tools) : tools[i].name = tools[j].name => i = j
  /\ isConnected => DisjointCatalogs

\* C8: with pairwise disjoint catalogs the registry holds exactly the tools of
\* all providers: its size is the sum of the catalog sizes, every listed tool
\* has exactly one entry and that entry carries the id of its provider.
C8_RegistryIsDisjointUnion ==
  (isConnected /\ DisjointCatalogs) =>
    /\ Len(tools) = Len(catalog["filesystem"]) + Len(catalog["gmail"])
                      + Len(catalog["search"])
    /\ \A p \in Provider : \A n \in Names(catalog[p]) :
         /\ Cardinality({i \in 1..Len(tools) : tools[i].name = n}) = 1
         /\ \E i \in 1..Len(tools) : tools[i].name = n /\ tools[i].source = p
    /\ \A i \in 1..Len(tools) : tools[i].name \in Names(catalog[tools[i].source])

\* a registry built from three non-empty disjoint catalogs
C8_Witness ==
  /\ isConnected
  /\ DisjointCatalogs
  /\ \A p \in Provider : Len(catalog[p]) = 1
  /\ Len(tools) = 3

\* C9: every dispatched tool call goes only to the provider that listed the
\* tool: each request on a connection names a tool of that provider's
\* catalog, and a connection's call counter counts only such requests.
C9_RoutedToOwner ==
  /\ \A r \in sentLog : r.name \in Names(catalog[r.provider])
  /\ \A p \in Provider :
       callCount[p] > 0 => \E r \in sentLog : r.provider = p

\* a tool of the second provider was invoked while the first provider lists
\* other tools: the first provider's counter is still 0
C9_Witness ==
  /\ callCount["gmail"] = 1
  /\ callCount["filesystem"] = 0
  /\ catalog["filesystem"] # <<>>
  /\ \E r \in sentLog : r.provider = "gmail"


\* C10: a provider call that throws does not leave the turn: when the tool
\* node is done every call of the plan has completed, each call that threw has
\* its own tool message with a failure text, in plan order, and the planner is
\* called next with these messages (unless the recursion limit ends the turn).
C10_ThrowIsRecordedAndTurnContinues ==
  [][(pc = "tools" /\ pc' # "tools") =>
       /\ \A i \in 1..Len(plan) : status[i] = "done"
       /\ Len(history'[thread]) = Len(history[thread]) + Len(plan)
       /\ \A i \in 1..Len(plan) : reply[i].kind = "throw" =>
            LET m == history'[thread][Len(history[thread]) + i] IN
              /\ m.role = "tool" /\ m.id = i /\ m.name = plan[i].name
              /\ m.text \in FailureTexts
       /\ step' < RecursionLimit => (pc' = "agent" /\ outcome' = outcome)]_vars

\* the planner is about to be called after a two-call plan whose first call
\* threw and whose second call returned
C10_Witness ==
  /\ pc = "agent"
  /\ Len(history[thread]) >= 4
  /\ LET h == history[thread] IN
       /\ h[Len(h) - 1].role = "tool" /\ h[Len(h) - 1].id = 1
       /\ h[Len(h) - 1].text = "Error executing tool"
       /\ h[Len(h)].role = "tool" /\ h[Len(h)].id = 2
       /\ h[Len(h)].text = "done"

\* C11: a provider response that carries isError = true is recorded as a
\* failure, never as a success: what the tool function returns for it has a
\* failure text and differs from what it returns for the same response
\* without the flag.
C11_ErrorFlagIsFailure ==
  \A i \in 1..Len(plan) :
    (status[i] = "done" /\ reply[i].kind = "result" /\ reply[i].isError) =>
      /\ result[i] \in FailureTexts
      /\ result[i] # toolReturn([reply[i] EXCEPT !.isError = FALSE])

\* the calls of the plan whose request is in flight
InFlight == {i \in 1..Len(plan) : status[i] = "sent"}

\* C12: the invocations of one plan run strictly in plan order and never
\* concurrently: at most one provider call is in flight, and a call is not
\* started before the result of the call before it has been received.
C12_OneCallInFlight ==
  /\ Cardinality(InFlight) <= 1
  /\ \A i \in 1..Len(plan) :
       status[i] # "pending" => \A j \in 1..(i - 1) : status[j] = "done"

\* the messages of the turn in progress (or of the last turn): those after the
\* last user message of the thread
TurnFrom == LastHuman(history[thread])

\* plan-execute cycles of the turn: planner responses with tool calls
Cycles ==
  Cardinality({i \in (TurnFrom + 1)..Len(history[thread]) :
                 /\ history[thread][i].role = "ai"
                 /\ history[thread][i].calls # <<>>})

\* the turn was ended by the recursion-limit error
LimitHit == pc = "Idle" /\ outcome = "recursion_limit"

\* C13 as stated: with a planner that returns tool calls on every call the
\* loop stops after exactly the configured bound (recursionLimit) of
\* plan-execute cycles, and the turn ends with the limit error.
C13_StopsAfterConfiguredCycles ==
  /\ pc # "Idle" => Cycles <= RecursionLimit
  /\ LimitHit => Cycles = RecursionLimit

\* C13 amended: the configured bound counts the steps of the agent's graph,
\* two per plan-execute cycle: a turn never runs more than RecursionLimit
\* steps, and when the planner returned tool calls on every call the loop
\* stops after exactly RecursionLimit steps, that is RecursionLimit / 2
\* cycles all of which were executed, and the turn ends with the limit error;
\* a turn that ends with an answer ends with a response without tool calls.
C13_StopsAfterConfiguredSteps ==
  /\ step <= RecursionLimit
  /\ pc # "Idle" => (step < RecursionLimit /\ Cycles <= MaxCycles)
  /\ LimitHit =>
       /\ step = RecursionLimit
       /\ Cycles = MaxCycles
       /\ history[thread][Len(history[thread])].role = "tool"
  /\ (pc = "Idle" /\ outcome = "answer") =>
       /\ history[thread][Len(history[thread])].role = "ai"
       /\ history[thread][Len(history[thread])].calls = <<>>

\* the first turn was ended by the limit
C13_Witness == LimitHit /\ turns = 1 /\ step = RecursionLimit

\* C14: every turn started by a user message eventually returns to Idle,
\* whatever the planner does, when every planner call and every provider
\* call eventually returns or fails.
C14_TurnReturnsToIdle == (pc # "Idle") ~> (pc = "Idle")

\* a second turn has returned after the planner proposed tool calls in it
C14_Witness ==
  /\ pc = "Idle"
  /\ turns = 2
  /\ Cycles > 0
  /\ outcome \in {"answer", "error", "recursion_limit"}

\* every assistant message with tool calls among h[from+1..] is followed by
\* the tool messages of its calls, in the order of the calls
CyclesComplete(h, from) ==
  \A i \in (from + 1)..Len(h) :
    (h[i].role = "ai" /\ h[i].calls # <<>>) =>
      /\ i + Len(h[i].calls) <= Len(h)
      /\ \A j \in 1..Len(h[i].calls) :
           /\ h[i + j].role = "tool"
           /\ h[i + j].id = j
           /\ h[i + j].name = h[i].calls[j]

\* C15: a turn aborted by the limit is not rolled back: the thread still
\* holds the user message and every assistant and tool message of the cycles
\* before the abort, the abort itself removes nothing, and the next turn on
\* the thread starts from all of them.
C15_NoRollbackOnLimit ==
  [][/\ (pc # "Idle" /\ pc' = "Idle" /\ outcome' = "recursion_limit") =>
          /\ Len(history'[thread]) >= Len(history[thread])
          /\ SubSeq(history'[thread], 1, Len(history[thread]))
                = history[thread]
          /\ LastHuman(history'[thread]) > 0
          /\ Len(history'[thread]) - LastHuman(history'[thread])
                = 2 * MaxCycles
          /\ CyclesComplete(history'[thread], LastHuman(history'[thread]))
     /\ (LimitHit /\ pc' = "agent") =>
          history'[thread'] = Append(history[thread'], HumanMessage)]_vars

\* the planner is called in the turn after a turn that the limit ended
C15_Witness ==
  /\ pc = "agent"
  /\ turns = 2
  /\ Len(history[thread]) = 2 * MaxCycles + 2
  /\ TurnFrom = Len(history[thread])
  /\ history[thread][1].role = "human"
  /\ history[thread][Len(history[thread]) - 1].role = "tool"

\* nothing of a provider is left: its process is not running and its
\* connection is not open (never opened, closed, or its close was attempted)
Down(p) == proc[p] # "running" /\ conn[p] # "open"

\* C16: startup is all-or-nothing: when an await of connect fails, connect
\* ends with the error, the orchestrator is not connected and has no agent,
\* and every provider started by that connect is torn down: no process is
\* left running and no connection open.
C16_FailedConnectLeavesNothing ==
  (pc = "Idle" /\ outcome = "connect_error") =>
    /\ ~isConnected
    /\ ~agent
    /\ tools = <<>>
    /\ \A p \in Provider : Down(p)

\* connect failed while the second service was connecting: both processes
\* that were started are killed, the first connection is closed
C16_Witness ==
  /\ pc = "Idle"
  /\ outcome = "connect_error"
  /\ proc = [filesystem |-> "killed", gmail |-> "killed", search |-> "none"]
  /\ conn = [filesystem |-> "closed", gmail |-> "none", search |-> "none"]

\* C17 as stated: the providers are launched concurrently: whenever connect
\* waits for a connection, the processes of all providers have been launched.
C17_LaunchedConcurrently ==
  pc \in ConnectStages => \A p \in Provider : proc[p] = "running"

\* C17 amended: the providers are launched one after another in the order
\* filesystem, gmail, search: a provider's process is launched only when the
\* connection of the provider before it is open, and connect completes only
\* when all three connections are open (wait-for-all).
C17_LaunchedInOrder ==
  [][/\ \A k \in 2..Len(ConnectOrder) :
          (proc[ConnectOrder[k]] = "none" /\ proc'[ConnectOrder[k]] = "running")
            => /\ conn'[ConnectOrder[k - 1]] = "open"
               /\ conn'[ConnectOrder[k]] = "none"
     /\ (~isConnected /\ isConnected') =>
          \A p \in Provider : proc'[p] = "running" /\ conn'[p] = "open"]_vars

\* connect waits for the second connection: the third process is not started
C17_Witness ==
  /\ pc = Connecting(2)
  /\ conn["filesystem"] = "open"
  /\ proc["gmail"] = "running"
  /\ proc["search"] = "none"

\* the orchestrator is torn down: not connected, no process running, every
\* connection closed or never opened
TornDown ==
  /\ ~isConnected
  /\ \A p \in Provider : proc[p] # "running" /\ conn[p] \in {"none", "closed"}

\* C18: teardown is idempotent: a disconnect on an orchestrator that is torn
\* down never throws and changes nothing (it runs to its end and leaves the
\* state it found), and a disconnect whose closes succeed leaves every
\* connection closed, every process terminated and the orchestrator not
\* connected.
C18_DisconnectIdempotent ==
  [][/\ (TornDown /\ (pc = "closing" \/ (pc = "Idle" /\ pc' = "closing"))) =>
          /\ pc' = (IF pc = "closing" THEN "Idle" ELSE "closing")
          /\ UNCHANGED <<turnVars, lifeVars, outcome>>
     /\ (pc = "closing" /\ pc' = "Idle" /\
           \A p \in Provider : conn[p] # "close_failed") => TornDown']_vars

\* a second disconnect is in progress on a connected orchestrator that was
\* torn down
C18_Witness ==
  /\ pc = "closing"
  /\ agent
  /\ TornDown
  /\ \A p \in Provider : proc[p] = "killed" /\ conn[p] = "closed"

\* C19: teardown is best-effort: the close of every open connection is
\* attempted even when closes fail, a failed close does not keep disconnect
\* from terminating every process, and a process is terminated only after
\* the close of every connection has been attempted.
C19_TeardownBestEffort ==
  [][/\ (\E p \in Provider : conn[p] = "open" /\ conn'[p] # "open") =>
          /\ pc' = "closing"
          /\ \A q \in Provider : conn'[q] # "open"
     /\ pc = "closing" =>
          /\ pc' = "Idle"
          /\ ~isConnected'
          /\ outcome' = outcome
          /\ \A p \in Provider : proc'[p] # "running"
     /\ \A p \in Provider :
          (proc[p] = "running" /\ proc'[p] # "running") =>
            /\ pc = "closing"
            /\ \A q \in Provider : conn[q] # "open"]_vars

\* a disconnect has ended in which one close failed and another succeeded
C19_Witness ==
  /\ pc = "Idle"
  /\ conn["filesystem"] = "close_failed"
  /\ conn["gmail"] = "closed"
  /\ \A p \in Provider : proc[p] = "killed"

\* C20: without OPENAI_API_KEY startup ends fatally before anything is
\* started: no provider process is ever spawned, no connection attempted and
\* connect is never entered.
C20_NoKeyNothingStarted ==
  ~apiKey =>
    /\ pc \in {"start", "no_orchestrator"}
    /\ ~isConnected
    /\ \A p \in Provider : proc[p] = "none" /\ conn[p] = "none"

\* the constructor has thrown for the missing key
C20_Witness ==
  /\ ~apiKey
  /\ pc = "no_orchestrator"
  /\ outcome = "fatal"

\* connect<Service>: the processes running for provider p. spawn() starts one
\* (kept in this.<x>ServerProcess), and the StdioClientTransport handed to
\* client.connect starts one of its own with the same command line, which
\* lives as long as the connection is open
Children(p) ==
  (IF proc[p] = "running" THEN 1 ELSE 0) + (IF conn[p] = "open" THEN 1 ELSE 0)

\* C21: one child process per provider: after a successful connect the number
\* of running provider processes the orchestrator started equals the number
\* of providers.
C21_OneProcessPerProvider ==
  (pc = "Idle" /\ isConnected) =>
    Children("filesystem") + Children("gmail") + Children("search")
      = Cardinality(Provider)

\* C22: in the chat loop the lines quit and exit end the session without
\* starting a turn and are followed by teardown (main returns with the
\* connection closed), and every other non-empty line starts exactly one turn.
C22_SentinelsEndSession ==
  [][/\ line'.n # line.n =>
          IF normalize(line'.text) \in {"quit", "exit"}
            THEN main' = "finally" /\ turns' = turns /\ pc' = "Idle"
            ELSE IF normalize(line'.text) = ""
              THEN turns' = turns /\ main' = main /\ pc' = "Idle"
              ELSE turns' = turns + 1 /\ main' = main
     /\ turns' # turns => line'.n # line.n
     /\ main' = "returned" =>
          ~isConnected' /\ \A p \in Provider : conn'[p] # "open"]_vars

\* C23: when SIGINT or SIGTERM is received, every provider connection and
\* process is torn down before the process exits.
C23_TeardownBeforeExit ==
  (pc = "exited" /\ sig = "done") => \A p \in Provider : Down(p)

\* C24: a failed planner call aborts only its turn: processQuery catches the
\* error and returns (the user is told), the messages of the thread are kept,
\* and the orchestrator stays connected with its agent, ready for the next
\* message.
C24_PlannerFailureAbortsTurnOnly ==
  [][(pc = "agent" /\ pc' # "tools" /\ outcome' # "answer"
        /\ outcome' # "recursion_limit") =>
       /\ pc' = "Idle"
       /\ outcome' = "error"
       /\ history' = history
       /\ UNCHANGED <<isConnected, agent, tools, conn, proc>>]_vars

\* a turn was answered on a thread whose previous turn was aborted by a
\* planner failure: its question is followed directly by the next question
C24_Witness ==
  /\ pc = "Idle"
  /\ outcome = "answer"
  /\ \E i \in 1..(Len(history[thread]) - 1) :
       /\ history[thread][i].role = "human"
       /\ history[thread][i + 1].role = "human"

\* the requests in flight on the connection of provider p
InFlightOn(p) ==
  {i \in 1..Len(plan) : status[i] = "sent" /\ request[i].provider = p}

\* C25: the calls on one provider connection are serialized: at no time are
\* two requests in flight on the same connection.
C25_SerializedPerConnection ==
  \A p \in Provider : Cardinality(InFlightOn(p)) <= 1

\* s is an initial part of t
IsPrefix(s, t) == Len(s) <= Len(t) /\ \A i \in 1..Len(s) : s[i] = t[i]

\* C26: conversation state is per thread: every step only appends to the
\* messages of the thread whose turn is running (so a turn works on all
\* earlier messages of its thread, in order), and it leaves the messages of
\* every other thread alone.
C26_StatePerThread ==
  [][\A t \in DOMAIN history :
       /\ IsPrefix(history[t], history'[t])
       /\ t # thread' => history'[t] = history[t]]_vars

\* a turn runs on thread t2 with only its own question, while thread t1 holds
\* an answered turn
C26_Witness ==
  /\ DOMAIN history = ThreadIds
  /\ thread = "t2"
  /\ pc = "agent"
  /\ history["t2"] = <<HumanMessage>>
  /\ Len(history["t1"]) >= 2
  /\ history["t1"][Len(history["t1"])].role = "ai"

\* C27: one turn at a time: the chat loop reads the next line, and starts the
\* next turn, only when no turn is running (the previous processQuery has
\* returned).
C27_OneActiveTurn ==
  [][(line'.n # line.n \/ turns' # turns) =>
       /\ pc = "Idle"
       /\ plan = <<>>
       /\ pc' \in {"Idle", "agent"}]_vars

\* the second turn of the session has started, after the first one was
\* answered
C27_Witness ==
  /\ main = "chat"
  /\ turns = 2
  /\ line.n >= 2
  /\ pc = "agent"
  /\ \E i \in 1..Len(history[ChatThread]) : history[ChatThread][i].role = "ai"

\* C28: a turn's answer comes from a planner response without tool calls:
\* when a turn ends with an answer, the last message of its thread is that
\* response (appended to the history), and every tool result of the turn
\* lies before it.
C28_AnswerIsFinalPlannerMessage ==
  [][(pc # "Idle" /\ pc' = "Idle" /\ outcome' = "answer") =>
       LET h == history'[thread] IN
         /\ Len(h) > 0
         /\ h[Len(h)].role = "ai"
         /\ h[Len(h)].calls = <<>>
         /\ h[Len(h)].text = "answer"]_vars

\* C29: the catalog the Gmail provider returns for listTools contains
\* quality_check, and a callTool request for quality_check is handled by the
\* server: it does not end in the unknown-tool error.
C29_QualityCheckRegistered ==
  /\ isConnected => \E i \in 1..Len(tools) : tools[i].name = "quality_check"
  /\ \A i \in 1..Len(request) :
       request[i].name = "quality_check" =>
         reply[i].text # "Error: Unknown tool"

\* the full path a call with path argument p is about: the handler
\* normalizes the argument and puts it below the root (an absolute path is
\* taken from the root, so that "/.." is the root itself)
Target(p) == pathJoin(Root, pathNormalize(p))

\* C30: every file-system operation of a filesystem tool call is on a path
\* inside the root directory, and a call whose path argument leads outside
\* the root fails before any file-system operation is performed.
C30_EffectsInsideRoot ==
  /\ \A e \in fsOps : IsPrefix(Root, e.path)
  /\ \A i \in 1..Len(request) :
       (/\ request[i].provider = "filesystem"
        /\ ~IsPrefix(Root, Target(request[i].args))) =>
         /\ reply[i].kind = "throw"
         /\ \A e \in fsOps : e.call # i

\* delete_file was called with a path that leads out of the root and was
\* refused without any file-system operation
C30_Witness ==
  /\ Len(request) = 1
  /\ request[1].provider = "filesystem"
  /\ request[1].name = "delete_file"
  /\ ~IsPrefix(Root, Target(request[1].args))
  /\ reply[1].kind = "throw"
  /\ fsOps = {}

\* C31: after a termination signal, at whatever point it arrived, no process
\* the orchestrator spawned is running when the orchestrator process exits,
\* also not one that connect spawned after the handler's disconnect began.
C31_NoProcessLeftAtExit ==
  (pc = "exited" /\ sig # "none") => \A p \in Provider : proc[p] # "running"

\* C32: on every path by which main ends after connect has succeeded (the
\* chat loop ends by quit or exit, or the chat loop throws), disconnect has
\* been executed before the process exits: isConnected is false by then.
C32_DisconnectBeforeExit ==
  (main \in {"chat", "finally", "returned"} /\ (pc = "exited" \/ main = "returned"))
    => ~isConnected

\* C33: whenever isConnected is true, all three connections were established,
\* the tools were aggregated and the agent was initialised; when a disconnect
\* completes isConnected is false, and only the last step of a successful
\* connect makes it true again, also when the disconnect of a signal handler
\* overlaps a connect that is still in progress.
C33_ConnectedMeansReady ==
  [][ /\ isConnected' =>
           /\ \A p \in Provider : conn'[p] # "none"
           /\ tools' = aggregateTools(catalog')
           /\ agent'
      /\ (pc = "closing" /\ pc' = "Idle") => ~isConnected'
      /\ (sig = "closing" /\ sig' = "done") => ~isConnected'
      /\ (~isConnected /\ isConnected') => (pc = "aggregate" /\ pc' = "Idle")
    ]_vars

\* the handler's disconnect has completed after connect had gone on to its
\* end while the closes were awaited (the search connection was opened after
\* close was called on it): isConnected is false
C33_Witness ==
  /\ sig = "done"
  /\ pc = "exited"
  /\ agent
  /\ conn["search"] = "open"
  /\ ~isConnected

\* C34: a processQuery called while the orchestrator is not ready (not
\* connected, or without agent), also after a disconnect, starts no turn (no
\* planner call, no provider call) and changes nothing: not the history of
\* any thread, not the counters, not the connection state; it only reports
\* that the orchestrator is not ready.
C34_NotReadyQueryChangesNothing ==
  [][ /\ (pc = "Idle" /\ pc' = "agent") => (isConnected /\ agent)
      /\ (outcome' = "not_ready" /\ outcome # "not_ready") =>
           /\ ~isConnected \/ ~agent
           /\ UNCHANGED <<turnVars, pc, lifeVars>>
    ]_vars

\* after a turn and a disconnect, a query was refused
C34_Witness ==
  /\ outcome = "not_ready"
  /\ ~isConnected
  /\ \E t \in DOMAIN history : Len(history[t]) > 0
  /\ pc = "Idle"

\* C35: in the single-provider client, when the tool loop of a planner
\* response with tool calls is over, the messages after the assistant message
\* are one tool message per tool call, in plan order, each carrying the id of
\* its own call; and while the loop runs they are the tool messages of the
\* calls made so far.
C35_OneToolMessagePerCall ==
  [][ /\ pc' = "tools" =>
           \A k \in 3..Len(history'[thread']) :
             /\ history'[thread'][k].role = "tool"
             /\ history'[thread'][k].id = k - 2
             /\ k - 2 \in 1..Len(plan')
             /\ status'[k - 2] = "done"
      /\ (pc = "tools" /\ pc' = "Idle") =>
           /\ Len(history'[thread']) = 2 + Len(plan)
           /\ \A i \in 1..Len(plan) :
                /\ history'[thread'][2 + i].role = "tool"
                /\ history'[thread'][2 + i].id = i
    ]_vars

\* C36: in the single-provider client one query gets at most two planner
\* responses and runs at most one round of tools: a plan is taken only from
\* the first response, requests go to the provider only in that round, and
\* the second response ends the query.
C36_TwoPlannerCallsOneRound ==
  [][ /\ step' <= 2
      /\ pc' = "tools" => step' = 1
      /\ (step' = 2 /\ step = 1) => (pc = "tools" /\ pc' = "Idle")
      /\ (plan' # plan /\ plan' # <<>>) => (pc = "agent" /\ step = 0)
      /\ callCount' # callCount => (pc = "tools" /\ step = 1)
    ]_vars

\* a query has ended with the answer of the second planner call, after a
\* round of two tool calls
C36_Witness ==
  /\ pc = "Idle"
  /\ step = 2
  /\ outcome = "answer"
  /\ Len(history[ChatThread]) = 4
  /\ history[ChatThread][4].role = "tool"

\* C38: the filesystem server accepts requests only after its root path is
\* set: whenever the transport is connected state.rootPath is not null, no
\* request is answered with the root-path-not-set error, and a server that
\* exited because the root was missing or inaccessible never connected the
\* transport.
C38_RootSetBeforeRequests ==
  /\ conn["filesystem"] = "open" => rootPath = "root"
  /\ \A i \in 1..Len(reply) : reply[i] # FsNoRoot
  /\ (pc = "exited" /\ outcome \in {"usage", "fatal"}) =>
       (conn["filesystem"] = "none" /\ request = <<>>)

\* a request has been served by the handler of a started server
C38_Witness ==
  /\ pc = "serving"
  /\ rootPath = "root"
  /\ Len(request) = 1
  /\ reply[1] = FsDone

\* the names the ListTools handler of a provider server returns
ServerListed(p) ==
  CASE p = "filesystem" -> Names(FsListTools)
    [] p = "gmail" -> Names(GmailListTools)
    [] OTHER -> {}

\* the names the switch of its CallTool handler has a case for
ServerCases(p) ==
  CASE p = "filesystem" -> FsTools
    [] p = "gmail" -> GmailCases
    [] OTHER -> {}

\* the reply is the unknown-tool error of the default case
IsUnknownToolError(r) ==
  r.text \in {"Error: Unknown tool", "Tool execution failed: Unknown tool"}

\* the reply is the error of a check the handler makes before the switch
IsEarlyError(r) ==
  r.text \in {"Error: No valid token", "Invalid arguments provided",
              "Root path not set"}

\* C37 (as claimed): for every provider server the listed names are the names
\* of the cases of the handler, no request for a listed name ends in the
\* unknown-tool error, and every request for a name that is not listed ends
\* in the unknown-tool error with no operation performed.
C37_UnlistedIsUnknownTool ==
  /\ \A p \in {"filesystem", "gmail"} : ServerListed(p) = ServerCases(p)
  /\ \A i \in 1..Len(request) :
       IF request[i].name \in ServerListed(request[i].provider)
         THEN ~IsUnknownToolError(reply[i])
         ELSE /\ IsUnknownToolError(reply[i])
              /\ \A e \in fsOps : e.call # i

\* C37 (amended): the listed names are the names of the cases, no request for
\* a listed name ends in the unknown-tool error, and a request for a name that
\* is not listed ends in an error with no operation performed: the
\* unknown-tool error, or the error of a check that precedes the switch; with
\* arguments that are an object the filesystem server gives the unknown-tool
\* error.
C37_UnlistedIsRefused ==
  /\ \A p \in {"filesystem", "gmail"} : ServerListed(p) = ServerCases(p)
  /\ \A i \in 1..Len(request) :
       IF request[i].name \in ServerListed(request[i].provider)
         THEN ~IsUnknownToolError(reply[i])
         ELSE /\ reply[i].kind = "throw" \/ reply[i].isError
              /\ IsUnknownToolError(reply[i]) \/ IsEarlyError(reply[i])
              /\ (request[i].provider = "filesystem" /\ plan[i].input = "json")
                   => IsUnknownToolError(reply[i])
              /\ \A e \in fsOps : e.call # i

\* the filesystem server has answered a request for a name it does not list,
\* sent with a path that exists, with the unknown-tool error
C37_Witness ==
  \E i \in 1..Len(request) :
    /\ request[i].provider = "filesystem"
    /\ request[i].name \notin Names(FsListTools)
    /\ plan[i].input = "json"
    /\ request[i].args.segs = <<"a">>
    /\ reply[i] = FsUnknown

====
